---- MODULE Spec2Model ----
(***************************************************************************)
(* Air-pollutant monitoring pipeline: the WAQI PM2.5 history accumulator,  *)
(* the fusion layer (normalize / consolidate), the fetch_all_sources        *)
(* orchestrator with its mock fallback, and the standalone OpenAQ save.     *)
(*                                                                         *)
(* Data frames are sequences of rows; a row is a record with the columns   *)
(* the sources produce.  Latitudes and longitudes are in tenths of a       *)
(* degree, values are whole numbers.  A timestamp is a pair <<form, t>>:   *)
(* form tells how the instant t is held ("naive" datetime, tz-aware "utc"  *)
(* Timestamp, or CSV text), so writing to CSV and reading back is a real   *)
(* conversion.                                                             *)
(***************************************************************************)
EXTENDS Integers, Sequences, FiniteSets, TLC

VARIABLES
    pm25_history,      \* data/raw/waqi_pm25_history.csv
    waqi_snapshot,     \* data/raw/waqi_data_latest.csv
    waqi_ret,          \* outcome of the last fetch_waqi_data call
    batch,             \* rows collected from the stations in the last WAQI cycle
    op,                \* the operation that ran last
    repeated,          \* the last WAQI cycle re-ingested the batch of the cycle before it
    REAL_SOURCES_AVAILABLE, \* fetch_all_gases.py: the source modules imported
    all_latest,        \* data/raw/all_gases_data_latest.csv
    datasets,          \* fetch_all_sources: the list handed to consolidate_dataframes
    attempts,          \* fetch_all_sources: how often each source was called
    outcomes,          \* fetch_all_sources: what each source did in the last call
    use_mock,          \* fetch_all_sources: use_mock_if_needed of the last call
    fused,             \* outcome of the last fetch_all_sources call
    fn_in,             \* input of the function under test
    fn_out,            \* its outcome
    fn_op,             \* which function was applied
    fn_args,           \* the arguments of that call
    detector,          \* HotspotDetector: the model and scaler it holds
    workers,           \* fetch_waqi_data processes running side by side: where each is, and its frames
    run                \* fetch_all_gases.main step by step: where it is and what it has attempted

histVars == <<pm25_history, waqi_snapshot, waqi_ret, batch, op, repeated>>
pipeVars == <<REAL_SOURCES_AVAILABLE, all_latest, datasets, attempts, outcomes, use_mock, fused>>
fnVars == <<fn_in, fn_out, fn_op, fn_args>>
vars == <<histVars, pipeVars, fnVars, detector, workers, run>>

(***************************************************************************)
(* Bounds of the model.                                                    *)
(***************************************************************************)
\* rows one WAQI cycle collects
MaxBatch == 2
\* rows a satellite / OpenAQ / mock batch holds
MaxSrcRows == 1
\* batches in a list given to consolidate_dataframes on its own
MaxDfs == 3

\* (station identifier, measurement instant) of the WAQI readings
WaqiKeys == {<<1, 1>>, <<1, 2>>, <<2, 1>>}

SeqUpTo(S, n) == UNION {[1..k -> S] : k \in 0..n}

MapSeq(f(_), s) == [i \in 1..Len(s) |-> f(s[i])]

Range(s) == {s[i] : i \in 1..Len(s)}

(***************************************************************************)
(* Configuration: src/utils/gas_config.py                                  *)
(***************************************************************************)
SUPPORTED_GASES == {"pm25", "pm10", "no2", "so2", "co", "o3"}

max_scale(gas) ==
    CASE gas = "pm25" -> 250
      [] gas = "pm10" -> 350
      [] gas = "no2" -> 200
      [] gas = "so2" -> 100
      [] gas = "co" -> 10
      [] gas = "o3" -> 200

\* str.lower() on the pollutant names the sources and tests write
Lower(s) ==
    CASE s \in {"pm25", "PM25", "Pm25"} -> "pm25"
      [] s \in {"pm10", "PM10"} -> "pm10"
      [] s \in {"no2", "NO2", "No2"} -> "no2"
      [] s \in {"so2", "SO2"} -> "so2"
      [] s \in {"co", "CO", "Co"} -> "co"
      [] s \in {"o3", "O3"} -> "o3"
      [] s \in {"aod", "AOD"} -> "aod"
      [] OTHER -> s

\* get_gas_config: unknown gases fall back to the pm25 entry
get_gas_config(gas) ==
    IF Lower(gas) \in SUPPORTED_GASES THEN Lower(gas) ELSE "pm25"

validate_value_range(gas, value) ==
    0 <= value /\ value <= max_scale(get_gas_config(gas)) * 2

\* WAQI_BOUNDS / AREA_OF_INTEREST, in tenths of a degree
AoiMinLat == 65
AoiMaxLat == 375
AoiMinLon == 680
AoiMaxLon == 975

(***************************************************************************)
(* Rows and CSV files                                                      *)
(***************************************************************************)
\* a missing station_uid (sources other than WAQI have no such column)
NoUid == 0

MkRow(uid, d, p, v, lat, lon, loc, src) ==
    [station_uid |-> uid, date |-> d, parameter |-> p, value |-> v,
     latitude |-> lat, longitude |-> lon, location |-> loc, source |-> src]

\* DataFrame.to_csv: a timestamp is written as text, with its UTC offset if it has one
WriteDate(d) ==
    CASE d[1] = "utc" -> <<"text+00:00", d[2]>>
      [] d[1] = "naive" -> <<"text", d[2]>>
      [] OTHER -> d

\* the missing timestamp pandas puts where a date cannot be parsed
NaT == <<"NaT", 0>>

\* pd.to_datetime(errors="coerce") / read_csv(parse_dates=...): text becomes a
\* timestamp again, text that is no date becomes NaT
ParseDate(d) ==
    CASE d[1] = "text+00:00" -> <<"utc", d[2]>>
      [] d[1] = "text" -> <<"naive", d[2]>>
      [] d[1] = "unparsable" -> NaT
      [] OTHER -> d

\* pd.to_datetime(..., utc=True): every timestamp becomes tz-aware UTC
ToDatetimeUtc(d) == <<"utc", d[2]>>

WriteRow(r) == [r EXCEPT !.date = WriteDate(r.date)]

ReadRowParseDates(r) == [r EXCEPT !.date = ParseDate(r.date)]

NoFile == [exists |-> FALSE, readable |-> FALSE, rows |-> <<>>]

CorruptFile == [exists |-> TRUE, readable |-> FALSE, rows |-> <<>>]

\* df.to_csv(path, index=False)
ToCsv(rows) == [exists |-> TRUE, readable |-> TRUE, rows |-> MapSeq(WriteRow, rows)]

\* a read that forgets parse_dates: the dates of the old rows stay text
ReadCsvDatesAsText(file) == file.rows

\* pd.read_csv(path, parse_dates=["date"]) of a readable file
ReadCsvParseDates(file) == MapSeq(ReadRowParseDates, file.rows)

\* pd.read_csv(path) of a readable file: dates stay text
ReadCsv(file) == file.rows

\* DataFrame.drop_duplicates(subset=key): the first row of each key is kept
DropDuplicates(key(_), s) ==
    LET F[i \in 0..Len(s)] ==
            IF i = 0 THEN <<>>
            ELSE IF \E j \in 1..(i - 1) : key(s[j]) = key(s[i])
                 THEN F[i - 1]
                 ELSE Append(F[i - 1], s[i])
    IN F[Len(s)]

IsPm25(r) == r.parameter = "pm25"

NotPm25(r) == r.parameter # "pm25"

HistoryKey(r) == <<r.station_uid, r.date>>

\* an accumulation that leaves the duplicates in
KeepHistoryDuplicates(s) == s

\* pm25_df.drop_duplicates(subset=["station_uid", "date"], inplace=True)
DropHistoryDuplicates(s) == DropDuplicates(HistoryKey, s)

(***************************************************************************)
(* src/data_collection/fetch_waqi.py                                       *)
(***************************************************************************)
\* parse_station_data: one row per reported gas, timestamp a naive UTC datetime
WaqiRow(uid, t, p, v) == MkRow(uid, <<"naive", t>>, p, v, 286, 772, "Delhi", "WAQI")

WaqiRows ==
    {WaqiRow(k[1], k[2], "pm25", 40) : k \in WaqiKeys}
    \cup {WaqiRow(1, 1, "pm25", 90), WaqiRow(1, 1, "no2", 40)}

\* what the station loop of one cycle yields: the station list request raises,
\* or the rows of the stations that answered (a failing station is skipped)
WaqiInputs ==
    {[kind |-> "raise", rows |-> <<>>]}
    \cup {[kind |-> "rows", rows |-> s] : s \in SeqUpTo(WaqiRows, MaxBatch)}

Raised(hist, snap) == [raised |-> TRUE, rows |-> <<>>, hist |-> hist, snap |-> snap]

Returned(rows, hist, snap) == [raised |-> FALSE, rows |-> rows, hist |-> hist, snap |-> snap]

\* an append step that forgets the old rows: the file is overwritten with the batch
AccumulatePm25Overwrite(pm25_df, hist) ==
    [raised |-> FALSE, rows |-> DropHistoryDuplicates(pm25_df)]

\* the PM2.5 append step: what pm25_df is after it, or "raise" when read_csv fails
AccumulatePm25(pm25_df, hist) ==
    IF hist.exists
    THEN IF hist.readable
         THEN [raised |-> FALSE,
               rows |-> DropHistoryDuplicates(ReadCsvParseDates(hist) \o pm25_df)]
         ELSE [raised |-> TRUE, rows |-> <<>>]
    ELSE [raised |-> FALSE, rows |-> DropHistoryDuplicates(pm25_df)]

\* df["date"] = pd.to_datetime(df["date"], utc=True, errors="coerce")
WaqiFrame(rows) == MapSeq(LAMBDA r : [r EXCEPT !.date = ToDatetimeUtc(r.date)], rows)

\* fetch_waqi_data: the returned frame and the two files after the call.
\* (gas_config refuses to import without WAQI_API_TOKEN, so the token test at
\* the top of the function never takes its early return.)
fetch_waqi_data(raw, hist, snap) ==
    IF raw.kind = "raise" THEN Raised(hist, snap)
    ELSE IF raw.rows = <<>> THEN Returned(<<>>, hist, snap)
    ELSE
      LET df == WaqiFrame(raw.rows)
          pm25_df == SelectSeq(df, IsPm25)
          other_df == SelectSeq(df, NotPm25)
      IN IF pm25_df # <<>>
         THEN LET acc == AccumulatePm25(pm25_df, hist)
              IN IF acc.raised THEN Raised(hist, snap)
                 ELSE Returned(acc.rows \o other_df, ToCsv(acc.rows), ToCsv(other_df))
         ELSE Returned(other_df, hist, ToCsv(other_df))

(***************************************************************************)
(* src/data_collection/fetch_all_gases.py: fusion                          *)
(***************************************************************************)
\* the hard-coded "India bounds" of normalize_dataframe, in tenths of a degree
NormMinLat == 80
NormMaxLat == 370
NormMinLon == 680
NormMaxLon == 970

\* a source's outcome: the call raised, returned None, or returned a frame
RaiseOutcome == [kind |-> "raise", rows |-> <<>>]

NoneOutcome == [kind |-> "none", rows |-> <<>>]

Df(rows) == [kind |-> "df", rows |-> rows]

\* "df is not None and not df.empty"
NonEmptyDf(d) == d.kind = "df" /\ d.rows # <<>>

\* pd.concat(valid, ignore_index=True)
Concat(dfs) ==
    LET F[i \in 0..Len(dfs)] == IF i = 0 THEN <<>> ELSE F[i - 1] \o dfs[i].rows
    IN F[Len(dfs)]

\* the column steps of normalize_dataframe: lower-case the pollutant, parse the date
NormalizeRow(r) ==
    [r EXCEPT !.parameter = Lower(r.parameter), !.date = ParseDate(r.date)]

\* the bounds filter of normalize_dataframe
InIndiaBounds(r) ==
    /\ r.latitude >= NormMinLat /\ r.latitude <= NormMaxLat
    /\ r.longitude >= NormMinLon /\ r.longitude <= NormMaxLon

\* df[df["value"] > 0]
PositiveValue(r) == r.value > 0

\* normalize_dataframe (the rows here carry latitude/longitude/value, so the
\* rename and the final dropna change nothing)
normalize_dataframe(rows) ==
    LET KeepRow(r) == InIndiaBounds(r) /\ PositiveValue(r)
    IN SelectSeq(MapSeq(NormalizeRow, rows), KeepRow)

\* a consolidate that passes the list on unfiltered: pd.concat raises on a list
\* without frames, and normalize_dataframe on a frame without columns
consolidate_unfiltered(dfs) ==
    IF \A i \in 1..Len(dfs) : ~NonEmptyDf(dfs[i])
    THEN [raised |-> TRUE, rows |-> <<>>]
    ELSE [raised |-> FALSE, rows |-> normalize_dataframe(Concat(SelectSeq(dfs, NonEmptyDf)))]

\* consolidate_dataframes
consolidate_dataframes(dfs) ==
    LET valid == SelectSeq(dfs, NonEmptyDf)
    IN IF valid = <<>>
       THEN [raised |-> FALSE, rows |-> <<>>]
       ELSE [raised |-> FALSE, rows |-> normalize_dataframe(Concat(valid))]

\* fetch_all_gases_enhanced.consolidate_dataframes: range validation, no bounds
consolidate_dataframes_enhanced(dfs) ==
    LET valid == SelectSeq(dfs, NonEmptyDf)
        InRange(r) == validate_value_range(r.parameter, r.value)
    IN IF valid = <<>>
       THEN [raised |-> FALSE, rows |-> <<>>]
       ELSE [raised |-> FALSE,
             rows |-> SelectSeq(MapSeq(NormalizeRow, Concat(valid)), InRange)]

(***************************************************************************)
(* The WAQI cycles                                                         *)
(***************************************************************************)
NoOutcome == [raised |-> FALSE, rows |-> <<>>]

InitHist ==
    /\ pm25_history = NoFile
    /\ waqi_snapshot = NoFile
    /\ waqi_ret = NoOutcome
    /\ batch = [kind |-> "rows", rows |-> <<>>]
    /\ op = "init"
    /\ repeated = FALSE

InitPipe ==
    /\ REAL_SOURCES_AVAILABLE = TRUE
    /\ all_latest = NoFile
    /\ datasets = <<>>
    /\ attempts = <<>>
    /\ outcomes = <<>>
    /\ use_mock = FALSE
    /\ fused = NoOutcome

\* no HotspotDetector constructed yet
NoDetector == [constructed |-> FALSE, raised |-> FALSE, model |-> "None", scaler |-> "None"]

\* main has not been started
NoRun == [pc |-> "start", steps |-> <<>>]

\* no fetch_waqi_data process has been started
NoWorkers == <<>>

InitFn ==
    /\ fn_in = <<>>
    /\ fn_out = NoOutcome
    /\ fn_op = "init"
    /\ fn_args = <<>>
    /\ detector = NoDetector
    /\ workers = NoWorkers
    /\ run = NoRun

\* python -m src.data_collection.fetch_waqi: one fetch cycle
FetchWaqi(raw) ==
    \E r \in {fetch_waqi_data(raw, pm25_history, waqi_snapshot)} :
       /\ pm25_history' = r.hist
       /\ waqi_snapshot' = r.snap
       /\ waqi_ret' = [raised |-> r.raised, rows |-> r.rows]
       /\ batch' = raw
       /\ op' = "fetch_waqi_data"
       /\ repeated' = (op = "fetch_waqi_data" /\ batch = raw)
       /\ UNCHANGED <<pipeVars, fnVars, detector, workers, run>>

\* the environment damages the history file (truncated write, bad encoding)
CorruptHistory ==
    /\ pm25_history.exists
    /\ pm25_history.readable
    /\ pm25_history' = CorruptFile
    /\ op' = "corrupt"
    /\ repeated' = FALSE
    /\ UNCHANGED <<waqi_snapshot, waqi_ret, batch, pipeVars, fnVars, detector, workers, run>>

Init == InitHist /\ InitPipe /\ InitFn

Next ==
    \/ \E raw \in WaqiInputs : FetchWaqi(raw)
    \/ CorruptHistory

Spec == Init /\ [][Next]_vars

(***************************************************************************)
(* src/data_collection/fetch_all_gases.py: the orchestrator                *)
(***************************************************************************)
Sources == {"WAQI", "Sentinel-5P", "MODIS", "OpenAQ"}

\* fetch_sentinel5p_grid / fetch_modis_aod: one row per grid cell with a reading
SentinelRow == MkRow(NoUid, <<"utc", 1>>, "no2", 1, 220, 769, "", "Sentinel-5P")

ModisRow == MkRow(NoUid, <<"utc", 1>>, "pm25", 48, 220, 769, "", "MODIS_AOD")

\* fetch_real_openaq_data_sdk keeps every measurement with value >= 0
OpenAqRow(v) == MkRow(NoUid, <<"utc", 1>>, "pm25", v, 286, 772, "Delhi", "OpenAQ (Live)")

OpenAqRows == {OpenAqRow(0), OpenAqRow(60), OpenAqRow(600)}

\* generate_realistic_mock_data: rows around the listed cities, values drawn at random
MockRow(p, v) == MkRow(NoUid, <<"naive", 1>>, p, v, 286, 772, "Delhi", "MOCK_DATA")

MockBatch == <<MockRow("pm25", 150), MockRow("no2", 75)>>

OutcomesOver(rows) ==
    {RaiseOutcome, NoneOutcome} \cup {Df(b) : b \in SeqUpTo(rows, MaxSrcRows)}

WaqiRaise == [kind |-> "raise", rows |-> <<>>]

WaqiYields(rows) == [kind |-> "rows", rows |-> rows]

NoAttempts == [s \in Sources |-> 0]

NoOutcomes == [s \in Sources |-> NoneOutcome]

\* one "try: ... except Exception" block that lets the exception through
TrySourceUncaught(acc, name, outcome) ==
    IF acc.escaped THEN acc
    ELSE [acc EXCEPT !.attempts[name] = @ + 1,
                     !.escaped = (outcome.kind = "raise"),
                     !.datasets = IF NonEmptyDf(outcome) THEN Append(@, outcome) ELSE @]

\* one "try: ... except Exception" block of fetch_all_sources
TrySource(acc, name, outcome) ==
    IF acc.escaped THEN acc
    ELSE [acc EXCEPT !.attempts[name] = @ + 1,
                     !.datasets = IF NonEmptyDf(outcome) THEN Append(@, outcome) ELSE @]

\* fetch_all_sources.  in: the flag, the import state, what each source does, the
\* mock generator's draw and the two WAQI files
fetch_all_sources(flag, avail, in, hist, snap) ==
    LET w == IF avail THEN fetch_waqi_data(in.waqi, hist, snap)
             ELSE Returned(<<>>, hist, snap)
        wOutcome == IF w.raised THEN RaiseOutcome ELSE Df(w.rows)
        a0 == [datasets |-> <<>>, attempts |-> NoAttempts, escaped |-> FALSE]
        a1 == TrySource(a0, "WAQI", wOutcome)
        a2 == TrySource(a1, "Sentinel-5P", in.sentinel)
        a3 == TrySource(a2, "MODIS", in.modis)
        a4 == TrySource(a3, "OpenAQ", in.openaq)
        real == IF avail THEN a4 ELSE a0
        handed == IF real.datasets = <<>> /\ flag /\ ~real.escaped
                  THEN <<Df(in.mock)>> ELSE real.datasets
        out == IF real.escaped THEN [raised |-> TRUE, rows |-> <<>>]
               ELSE IF handed = <<>> THEN [raised |-> FALSE, rows |-> <<>>]
               ELSE consolidate_dataframes(handed)
    IN [datasets |-> handed, attempts |-> real.attempts, ret |-> out,
        outcomes |-> IF avail
                     THEN [s \in Sources |->
                              CASE s = "WAQI" -> wOutcome
                                [] s = "Sentinel-5P" -> in.sentinel
                                [] s = "MODIS" -> in.modis
                                [] s = "OpenAQ" -> in.openaq]
                     ELSE NoOutcomes,
        waqi |-> [raised |-> w.raised, rows |-> w.rows],
        hist |-> w.hist, snap |-> w.snap]

\* what the sources may do in one call of fetch_all_sources
FetchInputs ==
    [waqi : {WaqiRaise, WaqiYields(<<>>), WaqiYields(<<WaqiRow(1, 1, "pm25", 40)>>)},
     sentinel : {RaiseOutcome, NoneOutcome, Df(<<SentinelRow>>)},
     modis : {RaiseOutcome, Df(<<>>), Df(<<ModisRow>>)},
     openaq : OutcomesOver(OpenAqRows),
     mock : {MockBatch}]

\* what the sources may do in one run of main
MainInputs ==
    [waqi : {WaqiRaise, WaqiYields(<<WaqiRow(1, 1, "pm25", 40)>>)},
     sentinel : {RaiseOutcome, Df(<<SentinelRow>>)},
     modis : {RaiseOutcome, Df(<<>>)},
     openaq : {RaiseOutcome, NoneOutcome, Df(<<OpenAqRow(0)>>), Df(<<OpenAqRow(60)>>)},
     mock : {MockBatch}]

LatestKey(r) == <<r.date, r.location, r.parameter>>

\* save_openaq_data: merge the batch into all_gases_data_latest.csv
save_openaq_data(df, latest) ==
    IF latest.exists
    THEN IF latest.readable
         THEN ToCsv(DropDuplicates(LatestKey, ReadCsv(latest) \o df))
         ELSE ToCsv(df)
    ELSE ToCsv(df)

\* a call of fetch_all_sources that saves nothing (scripts/fetch_data.py)
RunFetchAllSources(flag, in) ==
    \E r \in {fetch_all_sources(flag, REAL_SOURCES_AVAILABLE, in, pm25_history, waqi_snapshot)} :
       /\ pm25_history' = r.hist
       /\ waqi_snapshot' = r.snap
       /\ waqi_ret' = IF REAL_SOURCES_AVAILABLE THEN r.waqi ELSE waqi_ret
       /\ batch' = IF REAL_SOURCES_AVAILABLE THEN in.waqi ELSE batch
       /\ datasets' = r.datasets
       /\ attempts' = r.attempts
       /\ outcomes' = r.outcomes
       /\ use_mock' = flag
       /\ fused' = r.ret
       /\ op' = "fetch_all_sources"
       /\ UNCHANGED <<repeated, REAL_SOURCES_AVAILABLE, all_latest, fnVars, detector, workers, run>>

\* fetch_all_gases.main: fetch with the mock fallback, save the fused data set.
\* save_combined_data also writes a time-stamped copy nothing reads back; the
\* tracking and retraining triggers that follow write the tracking file and
\* the model artefacts only.
Main(in) ==
    \E r \in {fetch_all_sources(TRUE, REAL_SOURCES_AVAILABLE, in, pm25_history, waqi_snapshot)} :
       /\ pm25_history' = r.hist
       /\ waqi_snapshot' = r.snap
       /\ waqi_ret' = IF REAL_SOURCES_AVAILABLE THEN r.waqi ELSE waqi_ret
       /\ batch' = IF REAL_SOURCES_AVAILABLE THEN in.waqi ELSE batch
       /\ datasets' = r.datasets
       /\ attempts' = r.attempts
       /\ outcomes' = r.outcomes
       /\ use_mock' = TRUE
       /\ fused' = r.ret
       /\ all_latest' = IF r.ret.raised \/ r.ret.rows = <<>> THEN all_latest
                        ELSE ToCsv(r.ret.rows)
       /\ op' = "main"
       /\ UNCHANGED <<repeated, REAL_SOURCES_AVAILABLE, fnVars, detector, workers, run>>

\* python -m src.data_collection.fetch_openaq_sdk: fetch, and save what came back
\* (fetch_real_openaq_data_sdk catches its own errors and returns a frame)
OpenAqMain(df) ==
    /\ all_latest' = IF df = <<>> THEN all_latest ELSE save_openaq_data(df, all_latest)
    /\ op' = "fetch_openaq_sdk"
    /\ UNCHANGED <<pm25_history, waqi_snapshot, waqi_ret, batch, repeated,
                   REAL_SOURCES_AVAILABLE, datasets, attempts, outcomes, use_mock,
                   fused, fnVars, detector, workers, run>>

InitFetch ==
    /\ InitHist
    /\ REAL_SOURCES_AVAILABLE \in BOOLEAN
    /\ all_latest = NoFile
    /\ datasets = <<>>
    /\ attempts = NoAttempts
    /\ outcomes = NoOutcomes
    /\ use_mock = FALSE
    /\ fused = NoOutcome
    /\ InitFn

NextFetch == \E flag \in BOOLEAN, in \in FetchInputs : RunFetchAllSources(flag, in)

SpecFetch == InitFetch /\ [][NextFetch]_vars

NextPipeline ==
    \/ \E in \in MainInputs : Main(in)
    \/ \E df \in SeqUpTo(OpenAqRows, 1) : OpenAqMain(df)

SpecPipeline == InitFetch /\ [][NextPipeline]_vars

(***************************************************************************)
(* The fusion functions applied to inputs drawn from bounded sets          *)
(***************************************************************************)
\* raw records: coordinates around the edges of the region, pollutant names in
\* several letter cases, values around zero and around the plausible maxima
RawLatitudes == {60, 65, 70, 80, 200, 370, 372, 375, 380}

RawLongitudes == {675, 680, 800, 970, 973, 975, 980}

RawParameters == {"pm25", "PM25", "Pm25", "NO2", "co", "CO"}

RawValues == {-5, 0, 1, 15, 25, 500, 600}

RawRecords ==
    {MkRow(NoUid, <<"text+00:00", 1>>, p, v, lat, lon, "Delhi", "OpenAQ (Live)") :
        p \in RawParameters, v \in RawValues, lat \in RawLatitudes, lon \in RawLongitudes}

\* a record whose date column holds text that is no date
BadDateRow == MkRow(NoUid, <<"unparsable", 0>>, "pm25", 70, 286, 772, "Delhi", "OpenAQ (Live)")

\* the batches the lists given to consolidate_dataframes are made of
ListBatches ==
    {NoneOutcome, Df(<<>>), Df(<<OpenAqRow(60)>>), Df(<<OpenAqRow(0)>>),
     Df(<<SentinelRow, OpenAqRow(600)>>), Df(<<BadDateRow, OpenAqRow(60)>>)}

FusionInputs ==
    {<<Df(<<r>>)>> : r \in RawRecords} \cup SeqUpTo(ListBatches, MaxDfs)

InitFusion ==
    /\ InitHist
    /\ InitPipe
    /\ fn_in \in FusionInputs
    /\ fn_out = NoOutcome
    /\ fn_op = "input"
    /\ fn_args = <<>>
    /\ detector = NoDetector
    /\ workers = NoWorkers
    /\ run = NoRun

ApplyNormalize ==
    /\ fn_op = "input"
    /\ Len(fn_in) = 1
    /\ NonEmptyDf(fn_in[1])
    /\ fn_out' = [raised |-> FALSE, rows |-> normalize_dataframe(fn_in[1].rows)]
    /\ fn_op' = "normalize_dataframe"
    /\ UNCHANGED <<fn_in, fn_args, histVars, pipeVars, detector, workers, run>>

ApplyConsolidate ==
    /\ fn_op = "input"
    /\ fn_out' = consolidate_dataframes(fn_in)
    /\ fn_op' = "consolidate_dataframes"
    /\ UNCHANGED <<fn_in, fn_args, histVars, pipeVars, detector, workers, run>>

ApplyConsolidateEnhanced ==
    /\ fn_op = "input"
    /\ fn_out' = consolidate_dataframes_enhanced(fn_in)
    /\ fn_op' = "consolidate_dataframes_enhanced"
    /\ UNCHANGED <<fn_in, fn_args, histVars, pipeVars, detector, workers, run>>

NextFusion == ApplyNormalize \/ ApplyConsolidate \/ ApplyConsolidateEnhanced

SpecFusion == InitFusion /\ [][NextFusion]_vars

(***************************************************************************)
(* The history accumulator: C1 - C4                                        *)
(***************************************************************************)
Pm25Of(raw) == SelectSeq(WaqiFrame(raw.rows), IsPm25)

OthersOf(raw) == SelectSeq(WaqiFrame(raw.rows), NotPm25)

FileKeys(file) == {HistoryKey(r) : r \in Range(file.rows)}

\* C1: a fetch cycle that re-ingests the batch of the cycle just before it leaves
\* the persisted PM2.5 history exactly as that cycle left it (same size, same records).
C1_AccumulationIdempotent ==
    [][(op = "fetch_waqi_data" /\ op' = "fetch_waqi_data" /\ batch' = batch)
         => pm25_history' = pm25_history]_vars

\* a batch with PM2.5 rows was ingested twice in a row on top of an older history
C1_Witness ==
    /\ op = "fetch_waqi_data"
    /\ repeated
    /\ Pm25Of(batch) # <<>>
    /\ pm25_history.readable
    /\ Len(pm25_history.rows) > Cardinality({HistoryKey(r) : r \in Range(Pm25Of(batch))})

\* C2: no fetch cycle, whatever its batch or failure, removes a (station, timestamp)
\* key from the persisted PM2.5 history or makes the history shorter.
C2_HistoryMonotonic ==
    [][op' = "fetch_waqi_data"
         => /\ FileKeys(pm25_history) \subseteq FileKeys(pm25_history')
            /\ Len(pm25_history'.rows) >= Len(pm25_history.rows)]_vars

\* a cycle without PM2.5 rows, or a failed one, ran on a history of two records
C2_Witness ==
    /\ op = "fetch_waqi_data"
    /\ Pm25Of(batch) = <<>>
    /\ pm25_history.readable
    /\ Len(pm25_history.rows) >= 2

\* C3: when the history file exists but cannot be read, a cycle with PM2.5 rows
\* does not abort: the batch's PM2.5 records become the history and the batch
\* of the cycle is returned.
C3_CorruptHistoryTolerated ==
    [][(/\ op' = "fetch_waqi_data"
        /\ pm25_history.exists /\ ~pm25_history.readable
        /\ Pm25Of(batch') # <<>>)
         => /\ ~waqi_ret'.raised
            /\ pm25_history' = ToCsv(DropHistoryDuplicates(Pm25Of(batch')))
            /\ waqi_ret'.rows = DropHistoryDuplicates(Pm25Of(batch')) \o OthersOf(batch')]_vars

\* C4: the frame a cycle returns holds every PM2.5 record of the persisted history
\* and, of the other gases, exactly the rows collected in this cycle.
C4_ReturnsAccumulatedPm25 ==
    (op = "fetch_waqi_data" /\ ~waqi_ret.raised /\ pm25_history.readable)
        => /\ Range(ReadCsvParseDates(pm25_history)) \subseteq Range(waqi_ret.rows)
           /\ SelectSeq(waqi_ret.rows, NotPm25) = OthersOf(batch)

(***************************************************************************)
(* Fusion and the orchestrator: C5 - C10                                   *)
(***************************************************************************)
\* C5: consolidate_dataframes gives for a list what it gives for the list's
\* non-empty batches alone, never raises, and gives an empty data set for an
\* empty or all-empty list.
C5_FusionIgnoresEmpty ==
    fn_op = "consolidate_dataframes"
        => LET kept == SelectSeq(fn_in, NonEmptyDf)
           IN /\ ~fn_out.raised
              /\ fn_out.rows = consolidate_dataframes(kept).rows
              /\ kept = <<>> => fn_out.rows = <<>>

\* a list of three batches, one of them None or empty, was fused to rows
C5_Witness ==
    /\ fn_op = "consolidate_dataframes"
    /\ Len(fn_in) = 3
    /\ Len(SelectSeq(fn_in, NonEmptyDf)) = 2
    /\ fn_out.rows # <<>>

Fetched == op \in {"fetch_all_sources", "main"}

\* the non-empty frames of the sources that did not raise, in call order
SucceededBatches ==
    SelectSeq(<<outcomes["WAQI"], outcomes["Sentinel-5P"], outcomes["MODIS"],
                outcomes["OpenAQ"]>>, NonEmptyDf)

\* C6 as stated: every source is attempted exactly once, nothing escapes, and
\* fusion is handed exactly the non-empty batches of the sources that succeeded.
C6_SourceFailuresIsolated ==
    Fetched
        => /\ \A s \in Sources : attempts[s] = 1
           /\ ~fused.raised
           /\ datasets = SucceededBatches

\* C6 amended: with the source modules imported, every source is attempted exactly
\* once and nothing escapes; fusion is handed the non-empty batches of the sources
\* that succeeded or, when there are none and use_mock_if_needed is set, the mock
\* batch alone.  Without the modules no source is attempted.
C6_SourceFailuresIsolatedAmended ==
    Fetched
        => /\ \A s \in Sources : attempts[s] = (IF REAL_SOURCES_AVAILABLE THEN 1 ELSE 0)
           /\ ~fused.raised
           /\ datasets = IF SucceededBatches = <<>> /\ use_mock
                         THEN <<Df(MockBatch)>> ELSE SucceededBatches

\* one source raised, one returned None, and a later source's rows were handed on
C6_Witness ==
    /\ Fetched
    /\ outcomes["WAQI"].kind = "raise"
    /\ outcomes["Sentinel-5P"].kind = "none"
    /\ outcomes["MODIS"].rows = <<>>
    /\ NonEmptyDf(outcomes["OpenAQ"])
    /\ datasets = <<outcomes["OpenAQ"]>>

IsMock(r) == r.source = "MOCK_DATA"

Mixed(rows) == (\E r \in Range(rows) : IsMock(r)) /\ (\E r \in Range(rows) : ~IsMock(r))

\* C7: neither the data set fetch_all_sources returned nor all_gases_data_latest
\* ever holds MOCK_DATA rows together with rows of a real source.
C7_MockNeverMixed == ~Mixed(fused.rows) /\ ~Mixed(all_latest.rows)

\* C8: with use_mock_if_needed set, fetch_all_sources returns a non-empty data set.
C8_DataAlwaysAvailable ==
    (Fetched /\ use_mock) => (~fused.raised /\ fused.rows # <<>>)

\* inside the configured Area-of-Interest (WAQI_BOUNDS)
InAreaOfInterest(r) ==
    /\ r.latitude >= AoiMinLat /\ r.latitude <= AoiMaxLat
    /\ r.longitude >= AoiMinLon /\ r.longitude <= AoiMaxLon

\* C9: a raw record with a positive value, a recognized pollutant in any letter
\* case and coordinates inside the configured Area-of-Interest is in the output
\* of normalize_dataframe with its value and the lower-cased pollutant.
C9_NormalizeKeepsValidInRegion ==
    fn_op = "normalize_dataframe"
        => \A r \in Range(fn_in[1].rows) :
              (r.value > 0 /\ Lower(r.parameter) \in SUPPORTED_GASES /\ InAreaOfInterest(r))
                 => \E o \in Range(fn_out.rows) :
                       /\ o.value = r.value
                       /\ o.parameter = Lower(r.parameter)
                       /\ o.latitude = r.latitude /\ o.longitude = r.longitude

\* C10: every row of the fused data set has a value within the plausible range
\* of its pollutant (validate_value_range).
C10_FusedValuesPlausible ==
    Fetched => \A r \in Range(fused.rows) : validate_value_range(r.parameter, r.value)

(***************************************************************************)
(* src/models/hotspot_detection.py: HotspotDetector, and the /hotspots     *)
(* handler of api/main.py that calls it.  The fitted K-Means model and the *)
(* scaler are injected dependencies: a model is named, and predict gives   *)
(* the cluster label the named model assigns to a feature vector.          *)
(***************************************************************************)
\* rows of a dataset handed to the analytics
MaxPoints == 3

\* a missing number (NaN) in a numeric column
NaN == -1000000

NotNa(x) == x # NaN

\* clusters of the fitted model
n_clusters == 5

HotspotRow(p, v, lat, lon, loc) == MkRow(NoUid, <<"text+00:00", 1>>, p, v, lat, lon, loc, "WAQI")

\* a location of "" is a missing location (satellite rows carry none)
HotspotRows ==
    {HotspotRow("pm25", 180, 286, 772, "Delhi"),
     HotspotRow("pm25", 90, 190, 728, "Mumbai"),
     HotspotRow("pm25", 90, 130, 802, ""),
     HotspotRow("pm25", 40, 131, 803, "Unknown"),
     HotspotRow("pm25", NaN, 286, 772, "Delhi"),
     HotspotRow("no2", 60, 286, 772, "Delhi")}

\* a frame read from all_gases_data_latest.csv; pd.DataFrame() has no columns
Frame(rows) == [columns |-> TRUE, rows |-> rows]

NoColumns == [columns |-> FALSE, rows |-> <<>>]

HotspotFrames == {Frame(rows) : rows \in SeqUpTo(HotspotRows, MaxPoints)} \cup {NoColumns}

\* the fitted models on disk: each partitions the feature space its own way
ClusterModels == {"by_latitude", "by_value", "single"}

\* KMeans.predict on one (latitude, longitude, value) vector
kmeans_predict(model, r) ==
    CASE model = "by_latitude" -> (IF r.latitude >= 250 THEN 0 ELSE IF r.latitude >= 150 THEN 1 ELSE 2)
      [] model = "by_value" -> (IF r.value >= 100 THEN 4 ELSE 3)
      [] OTHER -> 0

\* kmeans_hotspot.pkl / scaler.pkl: absent, unreadable by joblib, or a fitted object
ModelFiles ==
    {[model |-> m, scaler |-> "ok"] : m \in ClusterModels}
        \cup {[model |-> m, scaler |-> s] : m \in {"missing", "corrupt"}, s \in {"ok"}}
        \cup {[model |-> "single", scaler |-> s] : s \in {"missing", "corrupt"}}

\* HotspotDetector._load_models as a bug would have it: no try around joblib.load
LoadModelsUnguarded(files) ==
    IF files.model # "missing" /\ files.scaler # "missing"
    THEN IF files.model = "corrupt" \/ files.scaler = "corrupt"
         THEN [constructed |-> FALSE, raised |-> TRUE, model |-> "None", scaler |-> "None"]
         ELSE [constructed |-> TRUE, raised |-> FALSE, model |-> files.model, scaler |-> "scaler"]
    ELSE [constructed |-> TRUE, raised |-> FALSE, model |-> "None", scaler |-> "None"]

\* HotspotDetector.__init__ and _load_models: both files must exist; a load that
\* raises leaves what was loaded before it and the rest None
HotspotDetector(files) ==
    IF files.model # "missing" /\ files.scaler # "missing"
    THEN IF files.model = "corrupt"
         THEN [constructed |-> TRUE, raised |-> FALSE, model |-> "None", scaler |-> "None"]
         ELSE [constructed |-> TRUE, raised |-> FALSE, model |-> files.model,
               scaler |-> IF files.scaler = "corrupt" THEN "None" ELSE "scaler"]
    ELSE [constructed |-> TRUE, raised |-> FALSE, model |-> "None", scaler |-> "None"]

SumSeq(s) ==
    LET F[i \in 0..Len(s)] == IF i = 0 THEN 0 ELSE F[i - 1] + s[i]
    IN F[Len(s)]

\* the locations in the order pandas sorts them
LocationOrder == <<"Chennai", "Delhi", "Mumbai", "Unknown">>

CountOf(rows, loc) == Len(SelectSeq(rows, LAMBDA r : r.location = loc))

\* x.mode().iloc[0] if not x.mode().empty else "Unknown": the most frequent
\* location, missing ones not counted, the first in sort order on a tie
LocationMode(rows) ==
    LET present == {i \in 1..Len(LocationOrder) : CountOf(rows, LocationOrder[i]) > 0}
        best == {i \in present :
                    \A j \in present :
                        CountOf(rows, LocationOrder[i]) >= CountOf(rows, LocationOrder[j])}
    IN IF present = {} THEN "Unknown"
       ELSE LocationOrder[CHOOSE i \in best : \A j \in best : i <= j]

\* a mean held exactly, as <<sum, count>>
MeanGeq(a, b) == a[1] * b[2] >= b[1] * a[2]

\* groupby('cluster').agg(...): one row per label that has members, in label order
GroupByCluster(target, model) ==
    LET Members(c) == SelectSeq(target, LAMBDA r : kmeans_predict(model, r) = c)
        Agg(c) ==
            LET m == Members(c)
            IN [cluster |-> c,
                avg_value |-> <<SumSeq([i \in 1..Len(m) |-> m[i].value]), Len(m)>>,
                latitude |-> SumSeq([i \in 1..Len(m) |-> m[i].latitude]) \div Len(m),
                longitude |-> SumSeq([i \in 1..Len(m) |-> m[i].longitude]) \div Len(m),
                location |-> LocationMode(m),
                data_points |-> Len(m)]
        F[c \in 0..n_clusters] ==
            IF c = n_clusters THEN <<>>
            ELSE (IF Members(c) = <<>> THEN <<>> ELSE <<Agg(c)>>) \o F[c + 1]
    IN F[0]

\* sort_values('avg_value', ascending=False) sorting the wrong way round
SortAscending(hs) ==
    LET Insert(sorted, h) ==
            LET before == SelectSeq(sorted, LAMBDA x : MeanGeq(h.avg_value, x.avg_value))
                after == SelectSeq(sorted, LAMBDA x : ~MeanGeq(h.avg_value, x.avg_value))
            IN before \o <<h>> \o after
        F[i \in 0..Len(hs)] == IF i = 0 THEN <<>> ELSE Insert(F[i - 1], hs[i])
    IN F[Len(hs)]

\* sort_values('avg_value', ascending=False): at most n_clusters rows, which
\* numpy sorts by insertion, so equal means keep their label order
SortByAvgValueDescending(hs) ==
    LET Insert(sorted, h) ==
            LET before == SelectSeq(sorted, LAMBDA x : MeanGeq(x.avg_value, h.avg_value))
                after == SelectSeq(sorted, LAMBDA x : ~MeanGeq(x.avg_value, h.avg_value))
            IN before \o <<h>> \o after
        F[i \in 0..Len(hs)] == IF i = 0 THEN <<>> ELSE Insert(F[i - 1], hs[i])
    IN F[Len(hs)]

\* hotspots['rank'] = hotspots.index + 1; city_name reuses location
AddRank(hs) ==
    [i \in 1..Len(hs) |->
        [cluster |-> hs[i].cluster, avg_value |-> hs[i].avg_value,
         latitude |-> hs[i].latitude, longitude |-> hs[i].longitude,
         location |-> hs[i].location, data_points |-> hs[i].data_points,
         rank |-> i, city_name |-> hs[i].location]]

Result(rows) == [raised |-> FALSE, rows |-> rows]

Raise == [raised |-> TRUE, rows |-> <<>>]

\* HotspotDetector.detect_hotspots; the column look-ups of the mask are outside
\* the try, scaler.transform / model.predict / groupby inside it
detect_hotspots(det, df, parameter, transform_raises) ==
    IF det.model = "None" \/ det.scaler = "None" THEN Result(<<>>)
    ELSE IF ~df.columns THEN Raise
    ELSE LET target == SelectSeq(df.rows, LAMBDA r :
                          /\ r.parameter = parameter
                          /\ NotNa(r.latitude) /\ NotNa(r.longitude) /\ NotNa(r.value))
         IN IF target = <<>> THEN Result(<<>>)
            ELSE IF transform_raises THEN Result(<<>>)
            ELSE Result(AddRank(SortByAvgValueDescending(GroupByCluster(target, det.model))))

\* round(float(row['avg_value']), 2), in hundredths
RoundHundredths(avg) == (200 * avg[1] + avg[2]) \div (2 * avg[2])

\* DataFrame.head(n): the first n rows; all but the last |n| for a negative n
HeadRows(s, n) ==
    LET k == IF n >= 0 THEN n ELSE Len(s) + n
    IN SubSeq(s, 1, IF k > Len(s) THEN Len(s) ELSE IF k < 0 THEN 0 ELSE k)

\* the HotspotLocation built from a row of the hotspot frame (colour and
\* category are looked up from avg_value and are not part of the ranking)
HotspotLocation(h) ==
    [rank |-> h.rank, city_name |-> h.city_name, latitude |-> h.latitude,
     longitude |-> h.longitude, avg_value |-> RoundHundredths(h.avg_value),
     cluster |-> h.cluster, data_points |-> h.data_points]

\* api/main.py get_hotspots: every failure inside is answered with []
get_hotspots(has_ml, df, files, gas, top_n, transform_raises) ==
    IF ~has_ml \/ df.rows = <<>>
    THEN [det |-> NoDetector, out |-> Result(<<>>)]
    ELSE LET known == Frame(SelectSeq(df.rows, LAMBDA r : r.location # "Unknown"))
             det == HotspotDetector(files)
             hotspots == detect_hotspots(det, known, Lower(gas), transform_raises)
         IN [det |-> det,
             out |-> IF hotspots.raised \/ hotspots.rows = <<>> THEN Result(<<>>)
                     ELSE Result(MapSeq(HotspotLocation, HeadRows(hotspots.rows, top_n)))]

HotspotInputs == [df : HotspotFrames, files : ModelFiles]

HotspotGases == {"pm25", "PM25", "no2"}

TopNs == {-1, 0, 1, 2, 10}

InitHotspot ==
    /\ InitHist
    /\ InitPipe
    /\ fn_in \in HotspotInputs
    /\ fn_out = NoOutcome
    /\ fn_op = "input"
    /\ fn_args = <<>>
    /\ detector = NoDetector
    /\ workers = NoWorkers
    /\ run = NoRun

\* detector = HotspotDetector()
NewHotspotDetector ==
    /\ fn_op = "input"
    /\ detector' = HotspotDetector(fn_in.files)
    /\ fn_op' = "HotspotDetector"
    /\ UNCHANGED <<fn_in, fn_out, fn_args, histVars, pipeVars, workers, run>>

\* detector.detect_hotspots(df, parameter)
DetectHotspots(parameter, transform_raises) ==
    /\ fn_op = "HotspotDetector"
    /\ fn_args' = [parameter |-> parameter, transform_raises |-> transform_raises]
    /\ fn_out' = detect_hotspots(detector, fn_in.df, parameter, transform_raises)
    /\ fn_op' = "detect_hotspots"
    /\ UNCHANGED <<fn_in, detector, histVars, pipeVars, workers, run>>

\* GET /hotspots?gas=...&top_n=...
GetHotspots(has_ml, gas, top_n, transform_raises) ==
    /\ fn_op = "input"
    /\ \E r \in {get_hotspots(has_ml, fn_in.df, fn_in.files, gas, top_n, transform_raises)} :
          /\ detector' = r.det
          /\ fn_out' = r.out
    /\ fn_args' = [has_ml |-> has_ml, gas |-> gas, top_n |-> top_n,
                   transform_raises |-> transform_raises]
    /\ fn_op' = "get_hotspots"
    /\ UNCHANGED <<fn_in, histVars, pipeVars, workers, run>>

NextHotspot ==
    \/ NewHotspotDetector
    \/ \E p \in {"pm25", "no2"}, t \in BOOLEAN : DetectHotspots(p, t)
    \/ \E m \in BOOLEAN, g \in HotspotGases, n \in TopNs, t \in BOOLEAN : GetHotspots(m, g, n, t)

SpecHotspot == InitHotspot /\ [][NextHotspot]_vars

(***************************************************************************)
(* The hotspot engine: C11 - C13                                           *)
(***************************************************************************)
\* C11: for a limit top_n >= 1 the list get_hotspots returns has at most top_n
\* entries, its mean values do not increase along the list, and its ranks are
\* 1, 2, ..., len(list) in list order.
C11_HotspotRanking ==
    (fn_op = "get_hotspots" /\ fn_args.top_n >= 1)
        => /\ Len(fn_out.rows) <= fn_args.top_n
           /\ \A i \in 1..(Len(fn_out.rows) - 1) :
                 fn_out.rows[i].avg_value >= fn_out.rows[i + 1].avg_value
           /\ \A i \in 1..Len(fn_out.rows) : fn_out.rows[i].rank = i

\* three clusters were found, the limit of two cut the list, and the two
\* hotspots returned have different means
C11_Witness ==
    /\ fn_op = "get_hotspots"
    /\ fn_args.top_n = 2
    /\ Cardinality({kmeans_predict(detector.model, r) :
                      r \in {x \in Range(fn_in.df.rows) : x.parameter = "pm25" /\ NotNa(x.value)
                                                          /\ x.location # "Unknown"}}) = 3
    /\ Len(fn_out.rows) = 2
    /\ fn_out.rows[1].avg_value > fn_out.rows[2].avg_value

\* the minimum member count the specification has the hotspot engine configured with
min_members == 2

\* C12: every hotspot returned has at least the configured minimum of members.
C12_MinimumMemberCount ==
    fn_op \in {"detect_hotspots", "get_hotspots"}
        => \A i \in 1..Len(fn_out.rows) : fn_out.rows[i].data_points >= min_members

\* C13: constructing HotspotDetector never raises; with the model or the scaler
\* missing or unloadable detect_hotspots returns an empty list for every dataset;
\* an exception during inference gives an empty list too.
C13_MissingModelIsValidState ==
    /\ ~detector.raised
    /\ (fn_op = "detect_hotspots" /\ (detector.model = "None" \/ detector.scaler = "None"))
          => fn_out = Result(<<>>)
    /\ (fn_op = "detect_hotspots" /\ fn_in.df.columns /\ fn_args.transform_raises)
          => fn_out = Result(<<>>)

\* the scaler file could not be loaded, and a dataset with PM2.5 rows got an empty list
C13_Witness ==
    /\ fn_op = "detect_hotspots"
    /\ fn_in.files.scaler = "corrupt"
    /\ detector.constructed /\ detector.scaler = "None"
    /\ fn_args.parameter = "pm25"
    /\ \E r \in Range(fn_in.df.rows) : r.parameter = "pm25" /\ NotNa(r.value)
    /\ fn_out = Result(<<>>)

(***************************************************************************)
(* src/models/hotspot_detection.py: PollutionPredictor.  Predictions are   *)
(* in tenths of the pollutant's unit; squared distances are in hundredths  *)
(* of a squared degree and are held exactly, as are the IDW weights.       *)
(***************************************************************************)
PredictorRow(p, v, lat, lon, loc) == MkRow(NoUid, <<"text+00:00", 1>>, p, v, lat, lon, loc, "WAQI")

PredictorRows ==
    {PredictorRow("pm25", 180, 286, 772, "Delhi"),
     PredictorRow("pm25", 3, 287, 772, "Delhi"),
     PredictorRow("pm25", 450, 286, 774, "Delhi"),
     PredictorRow("pm25", 90, 287, 773, "Unknown"),
     PredictorRow("pm25", 999, 286, 773, "Delhi"),
     PredictorRow("co", 1, 286, 772, "Delhi")}

\* data/raw/all_gases_data_latest.csv as the predictor finds it
PredictorFiles ==
    {NoFile, CorruptFile}
        \cup {[exists |-> TRUE, readable |-> TRUE, rows |-> rows] :
                 rows \in SeqUpTo(PredictorRows, MaxPoints)}

\* the frame self.df holds, or None
NoneDf == [none |-> TRUE, rows |-> <<>>]

\* PollutionPredictor.__init__ / _load_data: rows of unknown or missing location
\* and values outside (0, 999) are dropped; a failed read leaves self.df None
PollutionPredictor(file) ==
    IF file.exists /\ file.readable
    THEN [none |-> FALSE,
          rows |-> SelectSeq(file.rows, LAMBDA r :
                      /\ r.location # "Unknown" /\ r.location # ""
                      /\ r.value > 0 /\ r.value < 999)]
    ELSE NoneDf

\* DEFAULT_VALUES.get(parameter, 75.0) looked up without lower-casing the name
DefaultCaseSensitive(parameter) ==
    CASE parameter = "pm25" -> 850
      [] parameter = "pm10" -> 1200
      [] parameter = "no2" -> 450
      [] parameter = "so2" -> 200
      [] parameter = "o3" -> 350
      [] parameter = "co" -> 12
      [] OTHER -> 750

\* DEFAULT_VALUES.get(parameter.lower(), 75.0), in tenths
DefaultValue(parameter) ==
    CASE Lower(parameter) = "pm25" -> 850
      [] Lower(parameter) = "pm10" -> 1200
      [] Lower(parameter) = "no2" -> 450
      [] Lower(parameter) = "so2" -> 200
      [] Lower(parameter) = "o3" -> 350
      [] Lower(parameter) = "co" -> 12
      [] OTHER -> 750

\* rows taken for the interpolation
nearest_k == 5

\* the 0.01 added to the squared distance, in hundredths of a squared degree
idw_epsilon == 1

\* max(5, min(400, prediction)), in tenths
clamp_min == 50

clamp_max == 4000

\* dist ** 2, with dist = sqrt((latitude - lat)**2 + (longitude - lon)**2)
Dist2(r, lat, lon) ==
    (r.latitude - lat) * (r.latitude - lat) + (r.longitude - lon) * (r.longitude - lon)

\* sort_values('dist').head(5): rows by distance, the nearer first, equal
\* distances in frame order
Nearest(rows, lat, lon) ==
    LET Insert(sorted, r) ==
            LET before == SelectSeq(sorted, LAMBDA x : Dist2(x, lat, lon) <= Dist2(r, lat, lon))
                after == SelectSeq(sorted, LAMBDA x : Dist2(x, lat, lon) > Dist2(r, lat, lon))
            IN before \o <<r>> \o after
        F[i \in 0..Len(rows)] == IF i = 0 THEN <<>> ELSE Insert(F[i - 1], rows[i])
    IN HeadRows(F[Len(rows)], nearest_k)

ProdSeq(s) ==
    LET F[i \in 0..Len(s)] == IF i = 0 THEN 1 ELSE F[i - 1] * s[i]
    IN F[Len(s)]

\* sum(value * weights) / sum(weights) with weights = 1 / (dist**2 + 0.01):
\* the weights are brought to the common denominator P, the result is in tenths
Idw(nearest, lat, lon) ==
    LET den == [i \in 1..Len(nearest) |-> Dist2(nearest[i], lat, lon) + idw_epsilon]
        P == ProdSeq(den)
        w == [i \in 1..Len(nearest) |-> P \div den[i]]
    IN (10 * SumSeq([i \in 1..Len(nearest) |-> nearest[i].value * w[i]])) \div SumSeq(w)

Clamp(x) == IF x > clamp_max THEN clamp_max ELSE IF x < clamp_min THEN clamp_min ELSE x

\* PollutionPredictor.predict
predict(df, lat, lon, parameter) ==
    IF df.none \/ df.rows = <<>> THEN DefaultValue(parameter)
    ELSE LET param_df == SelectSeq(df.rows, LAMBDA r : r.parameter = Lower(parameter))
         IN IF param_df = <<>> THEN DefaultValue(parameter)
            ELSE Clamp(Idw(Nearest(param_df, lat, lon), lat, lon))

QueryPoints == {<<286, 772>>, <<287, 772>>, <<286, 774>>, <<288, 773>>}

QueryParameters == {"pm25", "PM25", "co", "CO", "o3", "nh3"}

InitPredictor ==
    /\ InitHist
    /\ InitPipe
    /\ fn_in \in PredictorFiles
    /\ fn_out = NoOutcome
    /\ fn_op = "input"
    /\ fn_args = <<>>
    /\ detector = NoDetector
    /\ workers = NoWorkers
    /\ run = NoRun

\* PollutionPredictor().predict(lat, lon, parameter)
Predict(q, parameter) ==
    /\ fn_op = "input"
    /\ fn_args' = [latitude |-> q[1], longitude |-> q[2], parameter |-> parameter]
    /\ \E df \in {PollutionPredictor(fn_in)} :
          fn_out' = [raised |-> FALSE, df |-> df, value |-> predict(df, q[1], q[2], parameter)]
    /\ fn_op' = "predict"
    /\ UNCHANGED <<fn_in, detector, histVars, pipeVars, workers, run>>

NextPredictor == \E q \in QueryPoints, p \in QueryParameters : Predict(q, p)

SpecPredictor == InitPredictor /\ [][NextPredictor]_vars

(***************************************************************************)
(* The spatial predictor: C14 - C16                                        *)
(***************************************************************************)
\* the measurements of the queried pollutant in the data file
MeasurementsOf(file, parameter) ==
    IF file.exists /\ file.readable
    THEN SelectSeq(file.rows, LAMBDA r : r.parameter = Lower(parameter))
    ELSE <<>>

\* C14: with the dataset missing, unreadable or empty, or without a measurement of
\* the queried pollutant, predict returns the pollutant's default (pm25 85,
\* pm10 120, no2 45, so2 20, o3 35, co 1.2, anything else 75) and does not raise.
C14_PredictorDefault ==
    (fn_op = "predict" /\ MeasurementsOf(fn_in, fn_args.parameter) = <<>>)
        => /\ ~fn_out.raised
           /\ fn_out.value =
                 (CASE fn_args.parameter \in {"pm25", "PM25"} -> 850
                    [] fn_args.parameter \in {"co", "CO"} -> 12
                    [] fn_args.parameter = "o3" -> 350
                    [] OTHER -> 750)

\* the file holds PM2.5 rows only and CO, written in capitals, was asked for
C14_Witness ==
    /\ fn_op = "predict"
    /\ fn_in.exists /\ fn_in.readable /\ fn_in.rows # <<>>
    /\ MeasurementsOf(fn_in, "co") = <<>>
    /\ fn_args.parameter = "CO"
    /\ fn_out.value = 12

\* C15: with a single measurement of the queried pollutant, of an admissible
\* value, a query at exactly its coordinate returns its value.
C15_PredictorExactAtSinglePoint ==
    (/\ fn_op = "predict"
     /\ Len(MeasurementsOf(fn_in, fn_args.parameter)) = 1)
        => LET m == MeasurementsOf(fn_in, fn_args.parameter)[1]
           IN (/\ m.latitude = fn_args.latitude /\ m.longitude = fn_args.longitude
               /\ validate_value_range(m.parameter, m.value))
                  => fn_out.value = 10 * m.value

\* C16: whatever the pollutant, the query point and the dataset, the value
\* predict returns lies in [5, 400].
C16_PredictionClamped ==
    fn_op = "predict" => (fn_out.value >= 50 /\ fn_out.value <= 4000)

(***************************************************************************)
(* src/models/forecasting.py: PollutionForecaster.  Averages, deviations   *)
(* and predictions are in tenths; inside _generate_city_forecast a value   *)
(* is held in units of 1/200000 so that the multiplier (hundredths), the   *)
(* noise (0.12 * std * z) and the trend (steps of 0.005) are exact.  The   *)
(* draws z of np.random.normal are an input: one draw per forecast hour.   *)
(***************************************************************************)
\* range(1, 25)
forecast_hours == 24

\* if len(clean_df) >= 10
min_city_rows == 10

\* 'avg' and 'std' of CITY_BASELINES, in tenths; {'avg': 85, 'std': 25} otherwise
CITY_BASELINES(city) ==
    CASE city = "delhi" -> [avg |-> 1800, std |-> 450]
      [] city = "mumbai" -> [avg |-> 950, std |-> 250]
      [] city = "bangalore" -> [avg |-> 650, std |-> 180]
      [] city = "chennai" -> [avg |-> 550, std |-> 150]
      [] city = "kolkata" -> [avg |-> 1200, std |-> 320]
      [] city = "hyderabad" -> [avg |-> 750, std |-> 200]
      [] city = "pune" -> [avg |-> 700, std |-> 180]
      [] city = "ahmedabad" -> [avg |-> 1100, std |-> 280]
      [] city = "lucknow" -> [avg |-> 1500, std |-> 400]
      [] city = "patna" -> [avg |-> 1700, std |-> 420]
      [] city = "jaipur" -> [avg |-> 1300, std |-> 350]
      [] city = "kanpur" -> [avg |-> 1600, std |-> 380]
      [] city = "bhopal" -> [avg |-> 850, std |-> 220]
      [] city = "surat" -> [avg |-> 900, std |-> 240]
      [] city = "visakhapatnam" -> [avg |-> 500, std |-> 140]
      [] OTHER -> [avg |-> 850, std |-> 250]

\* the city names a forecast is asked for
ForecastCities == {"Delhi", " delhi ", "Kanpur", "Pune", "Atlantis"}

\* city.lower().strip()
LowerStrip(city) ==
    CASE city \in {"Delhi", " delhi ", "delhi"} -> "delhi"
      [] city \in {"Kanpur", "kanpur"} -> "kanpur"
      [] city \in {"Pune", "pune"} -> "pune"
      [] city = "Atlantis" -> "atlantis"
      [] OTHER -> city

\* df['location'].str.lower().str.contains(city_lower, na=False)
LocationContains(location, city_lower) ==
    CASE location \in {"Delhi", "Anand Vihar, Delhi"} -> city_lower = "delhi"
      [] location = "Kanpur" -> city_lower = "kanpur"
      [] location = "Pune" -> city_lower = "pune"
      [] OTHER -> FALSE

ForecastRow(v, loc) == MkRow(NoUid, <<"text+00:00", 1>>, "pm25", v, 286, 772, loc, "WAQI")

Repeat(n, r) == [i \in 1..n |-> r]

\* the datasets: none, one short of the threshold, constant, widely spread,
\* at either end of the accepted values, and one with rows the filter drops
ForecastFrames ==
    {<<>>,
     Repeat(9, ForecastRow(300, "Delhi")),
     Repeat(10, ForecastRow(300, "Delhi")),
     [i \in 1..10 |-> ForecastRow(IF i % 2 = 0 THEN 499 ELSE 1, "Anand Vihar, Delhi")],
     Repeat(10, ForecastRow(499, "Delhi")),
     Repeat(10, ForecastRow(1, "Kanpur")),
     Repeat(10, ForecastRow(300, "Delhi")) \o <<ForecastRow(600, "Delhi"), ForecastRow(400, "Unknown")>>,
     Repeat(9, ForecastRow(300, "Delhi")) \o <<ForecastRow(NaN, "Delhi"), ForecastRow(0, "Delhi")>>}

\* the draws of the standard normal variate, far tails included
NoiseDraws == {-40, -1, 0, 1, 40}

NoiseProfiles ==
    {[i \in 1..forecast_hours |-> z] : z \in NoiseDraws}
        \cup {[i \in 1..forecast_hours |-> IF i % 3 = 0 THEN 40 ELSE IF i % 3 = 1 THEN -40 ELSE 0]}

\* the largest k with k * k <= x
Isqrt(x) == CHOOSE k \in 0..3000 : k * k <= x /\ (k + 1) * (k + 1) > x

\* clean_df['value'].mean(), in tenths
MeanTenths(values) == (10 * SumSeq(values)) \div Len(values)

\* clean_df['value'].std(): the sample deviation (ddof = 1), in tenths
StdTenths(values) ==
    LET n == Len(values)
        sq == SumSeq([i \in 1..n |-> values[i] * values[i]])
        su == SumSeq(values)
    IN Isqrt((100 * (n * sq - su * su)) \div (n * (n - 1)))

\* the multiplier of the hour, in hundredths
Multiplier(next_hour, city) ==
    LET is_industrial == city \in {"kanpur", "surat", "ahmedabad", "lucknow"}
        is_metro == city \in {"delhi", "mumbai", "bangalore", "kolkata", "chennai", "hyderabad"}
    IN IF 7 <= next_hour /\ next_hour <= 10 THEN (IF is_metro THEN 125 ELSE 115)
       ELSE IF 17 <= next_hour /\ next_hour <= 21 THEN (IF is_metro THEN 135 ELSE 120)
       ELSE IF 22 <= next_hour \/ next_hour <= 2 THEN (IF is_industrial THEN 110 ELSE 90)
       ELSE IF 2 < next_hour /\ next_hour <= 5 THEN 70
       ELSE IF 11 <= next_hour /\ next_hour <= 16 THEN 95
       ELSE 100

\* a forecast hour without the clamp
NoClampForecast(x) == x

\* max(15, min(450, pred)), in units of 1/200000
ClampForecast(x) ==
    IF x > 450 * 200000 THEN 450 * 200000 ELSE IF x < 15 * 200000 THEN 15 * 200000 ELSE x

\* round(pred, 1), in tenths
RoundTenths(x) ==
    IF x >= 0 THEN (x + 10000) \div 20000 ELSE -((10000 - x) \div 20000)

\* PollutionForecaster._generate_city_forecast
generate_city_forecast(avg, std, city, now_hour, noise) ==
    [i \in 1..forecast_hours |->
        LET next_hour == (now_hour + i) % 24
            variation == noise[i] * std * 12
            pred == avg * Multiplier(next_hour, city) + variation
            trended == IF i > 12 THEN pred * (200 + (i - 12)) ELSE pred * 200
        IN RoundTenths(ClampForecast(trended))]

\* a threshold test that wants more than ten rows
MoreThanMinRows(n) == n > min_city_rows

\* if len(clean_df) >= 10
EnoughRows(n) == n >= min_city_rows

\* predict_next_24h up to the call of _generate_city_forecast: the average and
\* the deviation it passes on, and the mode it records
forecast_baseline(df, city) ==
    LET city_lower == LowerStrip(city)
        baseline == CITY_BASELINES(city_lower)
        clean_df == SelectSeq(df, LAMBDA r :
                        /\ r.parameter = "pm25"
                        /\ NotNa(r.value) /\ r.value > 0 /\ r.value < 500
                        /\ r.location # "Unknown"
                        /\ LocationContains(r.location, city_lower))
        values == [i \in 1..Len(clean_df) |-> clean_df[i].value]
        own == EnoughRows(Len(clean_df))
    IN [city_avg |-> IF own THEN MeanTenths(values) ELSE baseline.avg,
        city_std |-> IF own
                     THEN (IF StdTenths(values) > 100 THEN StdTenths(values) ELSE 100)
                     ELSE baseline.std,
        model_type |-> IF own THEN "City ML Model" ELSE "City Baseline Model"]

\* PollutionForecaster.predict_next_24h
predict_next_24h(df, city, now_hour, noise) ==
    LET b == forecast_baseline(df, city)
    IN [raised |-> FALSE,
        labels |-> [i \in 1..24 |-> (now_hour + i) % 24],
        predictions |-> generate_city_forecast(b.city_avg, b.city_std, LowerStrip(city),
                                               now_hour, noise),
        city |-> city,
        gas |-> "pm25",
        model |-> b.model_type,
        current_avg |-> b.city_avg]

ForecastInputs == [df : ForecastFrames, now_hour : 0..23, noise : NoiseProfiles]

InitForecast ==
    /\ InitHist
    /\ InitPipe
    /\ fn_in \in ForecastInputs
    /\ fn_out = NoOutcome
    /\ fn_op = "input"
    /\ fn_args = <<>>
    /\ detector = NoDetector
    /\ workers = NoWorkers
    /\ run = NoRun

\* PollutionForecaster().predict_next_24h(df, city=city_name)
PredictNext24h(city) ==
    /\ fn_op = "input"
    /\ fn_args' = [city |-> city, generate_call |-> forecast_baseline(fn_in.df, city)]
    /\ fn_out' = predict_next_24h(fn_in.df, city, fn_in.now_hour, fn_in.noise)
    /\ fn_op' = "predict_next_24h"
    /\ UNCHANGED <<fn_in, detector, histVars, pipeVars, workers, run>>

NextForecast == \E city \in ForecastCities : PredictNext24h(city)

SpecForecast == InitForecast /\ [][NextForecast]_vars

MaxHours == 2

\* if nearest['dist'] > 4.0, in hundredths of a squared degree
dist_threshold == 400

\* one record of the weather frame (fetch_era5_weather builds them)
WeatherRecord(city, d, lat, lon, speed, direction, precip) ==
    [city |-> city, date |-> d, latitude |-> lat, longitude |-> lon,
     wind_speed |-> speed, wind_direction |-> direction, total_precipitation |-> precip]

\* a record of a dry hour, fetched at instant d
WeatherRow(city, d, lat, lon, speed, direction) ==
    WeatherRecord(city, d, lat, lon, speed, direction, 0)

WindDirections == {0, 45, 90, 180, 270}

DelhiWeather == {WeatherRow("Delhi", 2, 286, 772, ws, wd) : ws \in {0, 10}, wd \in WindDirections}

MumbaiWeather == WeatherRow("Mumbai", 2, 190, 728, 5, 135)

\* Delhi's sample of the fetch before
OlderDelhiWeather == WeatherRow("Delhi", 1, 286, 772, 7, 135)

\* the weather frame: one row per city and fetch, the older rows first or last
WeatherFrames ==
    {<<d>> : d \in DelhiWeather}
        \cup {<<MumbaiWeather, d>> : d \in DelhiWeather}
        \cup {<<OlderDelhiWeather, d>> : d \in DelhiWeather}
        \cup {<<d, OlderDelhiWeather>> : d \in DelhiWeather}

\* 1000 * sin(deg2rad(d)) and 1000 * cos(deg2rad(d))
Sin1000(d) ==
    CASE d = 0 -> 0 [] d = 45 -> 707 [] d = 90 -> 1000 [] d = 135 -> 707
      [] d = 180 -> 0 [] d = 225 -> -707 [] d = 270 -> -1000 [] d = 315 -> -707

Cos1000(d) ==
    CASE d = 0 -> 1000 [] d = 45 -> 707 [] d = 90 -> 0 [] d = 135 -> -707
      [] d = 180 -> -1000 [] d = 225 -> -707 [] d = 270 -> 0 [] d = 315 -> 707

\* wind components under the 'blows to' convention
WindComponentsBlowsTo(w) ==
    [city |-> w.city, date |-> w.date, latitude |-> w.latitude, longitude |-> w.longitude,
     wind_speed |-> w.wind_speed, wind_direction |-> w.wind_direction,
     total_precipitation |-> w.total_precipitation,
     wind_u |-> w.wind_speed * Sin1000(w.wind_direction),
     wind_v |-> w.wind_speed * Cos1000(w.wind_direction)]

\* calculate_wind_components, on one row: U eastward, V northward
calculate_wind_components(w) ==
    [city |-> w.city, date |-> w.date, latitude |-> w.latitude, longitude |-> w.longitude,
     wind_speed |-> w.wind_speed, wind_direction |-> w.wind_direction,
     total_precipitation |-> w.total_precipitation,
     wind_u |-> -w.wind_speed * Sin1000(w.wind_direction),
     wind_v |-> -w.wind_speed * Cos1000(w.wind_direction)]

\* the cities in the order groupby sorts them
CityOrder == <<"Delhi", "Mumbai">>

\* weather_df.groupby('city').last().reset_index()
LatestWeather(weather) ==
    LET Of(c) == SelectSeq(weather, LAMBDA w : w.city = c)
        F[i \in 0..Len(CityOrder)] ==
            IF i = 0 THEN <<>>
            ELSE F[i - 1] \o (IF Of(CityOrder[i]) = <<>> THEN <<>>
                              ELSE <<Of(CityOrder[i])[Len(Of(CityOrder[i]))]>>)
    IN F[Len(CityOrder)]

\* latest_weather['dist']: the squared planar distance to a station
StationDist2(w, p) ==
    (w.latitude - p.latitude) * (w.latitude - p.latitude)
        + (w.longitude - p.longitude) * (w.longitude - p.longitude)

\* latest_weather.loc[latest_weather['dist'].idxmin()]: the first nearest station
NearestStation(latest, p) ==
    latest[CHOOSE i \in 1..Len(latest) :
              /\ \A j \in 1..Len(latest) : StationDist2(latest[i], p) <= StationDist2(latest[j], p)
              /\ \A j \in 1..(i - 1) : StationDist2(latest[j], p) > StationDist2(latest[i], p)]

\* the test read as if the distance were not squared
WithinReachUnsquared(d2) == d2 <= 200

\* not (nearest['dist'] > 4.0)
WithinReach(d2) == ~(d2 > dist_threshold)

\* a projection loop that counts the hours from 0: range(hours_forward)
TrackOneFromNow(p, latest, hours_forward) ==
    LET nearest == NearestStation(latest, p)
    IN IF ~WithinReach(StationDist2(nearest, p)) THEN <<>>
       ELSE [k \in 1..hours_forward |->
                [original_lat |-> p.latitude,
                 original_lon |-> p.longitude,
                 predicted_lat |-> p.latitude * 10000 + nearest.wind_v * (k - 1),
                 predicted_lon |-> p.longitude * 10000 + nearest.wind_u * (k - 1),
                 hours_ahead |-> k - 1,
                 value |-> p.value,
                 parameter |-> p.parameter,
                 wind_speed |-> nearest.wind_speed,
                 wind_direction |-> nearest.wind_direction]]

\* the rows one measurement adds to tracked; with scale = 0.01 a component of
\* 1000 thousandths moves the point 1000 units of 1/100000 degree per hour
TrackOne(p, latest, hours_forward) ==
    LET nearest == NearestStation(latest, p)
    IN IF ~WithinReach(StationDist2(nearest, p)) THEN <<>>
       ELSE [h \in 1..hours_forward |->
                [original_lat |-> p.latitude,
                 original_lon |-> p.longitude,
                 predicted_lat |-> p.latitude * 10000 + nearest.wind_v * h,
                 predicted_lon |-> p.longitude * 10000 + nearest.wind_u * h,
                 hours_ahead |-> h,
                 value |-> p.value,
                 parameter |-> p.parameter,
                 wind_speed |-> nearest.wind_speed,
                 wind_direction |-> nearest.wind_direction]]

\* track_pollution_movement
track_pollution_movement(pollution_df, weather_df, hours_forward) ==
    LET latest == LatestWeather(MapSeq(calculate_wind_components, weather_df))
        F[i \in 0..Len(pollution_df)] ==
            IF i = 0 THEN <<>> ELSE F[i - 1] \o TrackOne(pollution_df[i], latest, hours_forward)
    IN F[Len(pollution_df)]

TrackedPoint(lat, lon) == MkRow(NoUid, <<"text+00:00", 1>>, "pm25", 120, lat, lon, "Delhi", "WAQI")

\* measurements at 0, 1.98, exactly 2, just over 2 and 6.4 degrees from Delhi's station
TrackedPoints ==
    {TrackedPoint(286, 772), TrackedPoint(300, 786), TrackedPoint(306, 772),
     TrackedPoint(306, 773), TrackedPoint(350, 772)}

AdvectionInputs ==
    [pollution : SeqUpTo(TrackedPoints, MaxPoints), weather : WeatherFrames]

InitAdvection ==
    /\ InitHist
    /\ InitPipe
    /\ fn_in \in AdvectionInputs
    /\ fn_out = NoOutcome
    /\ fn_op = "input"
    /\ fn_args = <<>>
    /\ detector = NoDetector
    /\ workers = NoWorkers
    /\ run = NoRun

\* track_pollution_movement(df, weather_df, hours_forward); its callers hand it
\* a weather frame that is not empty
TrackPollutionMovement(hours_forward) ==
    /\ fn_op = "input"
    /\ fn_args' = [hours_forward |-> hours_forward]
    /\ fn_out' = Result(track_pollution_movement(fn_in.pollution, fn_in.weather, hours_forward))
    /\ fn_op' = "track_pollution_movement"
    /\ UNCHANGED <<fn_in, detector, histVars, pipeVars, workers, run>>

NextAdvection == \E h \in 1..MaxHours : TrackPollutionMovement(h)

SpecAdvection == InitAdvection /\ [][NextAdvection]_vars

(***************************************************************************)
(* The advection tracker: C18 - C19                                        *)
(***************************************************************************)
\* the trajectory points that start at a measurement
PointsOf(p) ==
    SelectSeq(fn_out.rows, LAMBDA t : t.original_lat = p.latitude /\ t.original_lon = p.longitude)

\* the planar distance from p to its nearest weather station is at most 2 degrees
WithinTwoDegrees(p) ==
    \E i \in 1..Len(fn_in.weather) : StationDist2(fn_in.weather[i], p) <= (2 * 10) * (2 * 10)

\* C18: a measurement gives trajectory points if and only if its nearest
\* weather station is at most 2 degrees away.
C18_AdvectionSkipsFarPoints ==
    fn_op = "track_pollution_movement"
        => \A i \in 1..Len(fn_in.pollution) :
              (PointsOf(fn_in.pollution[i]) # <<>>) <=> WithinTwoDegrees(fn_in.pollution[i])

\* a measurement exactly 2 degrees from the station was tracked and one just
\* beyond was skipped
C18_Witness ==
    /\ fn_op = "track_pollution_movement"
    /\ TrackedPoint(306, 772) \in Range(fn_in.pollution)
    /\ TrackedPoint(306, 773) \in Range(fn_in.pollution)
    /\ Len(PointsOf(TrackedPoint(306, 772))) >= fn_args.hours_forward
    /\ PointsOf(TrackedPoint(306, 773)) = <<>>

\* C19: for a nonzero wind speed, wind from due north moves the point south and
\* leaves its longitude, from due south moves it north, from due east moves it
\* west and from due west moves it east, at every hour.
C19_BlowsFromConvention ==
    fn_op = "track_pollution_movement"
        => \A i \in 1..Len(fn_out.rows) :
              LET t == fn_out.rows[i]
              IN t.wind_speed > 0
                    => /\ t.wind_direction = 0
                            => /\ t.predicted_lat < t.original_lat * 10000
                               /\ t.predicted_lon = t.original_lon * 10000
                       /\ t.wind_direction = 180 => t.predicted_lat > t.original_lat * 10000
                       /\ t.wind_direction = 90 => t.predicted_lon < t.original_lon * 10000
                       /\ t.wind_direction = 270 => t.predicted_lon > t.original_lon * 10000

\* a point tracked for two hours under a wind of 10 from due north
C19_Witness ==
    /\ fn_op = "track_pollution_movement"
    /\ \E i \in 1..Len(fn_out.rows) :
          /\ fn_out.rows[i].wind_direction = 0
          /\ fn_out.rows[i].wind_speed = 10
          /\ fn_out.rows[i].hours_ahead = 2
          /\ fn_out.rows[i].predicted_lat = fn_out.rows[i].original_lat * 10000 - 20000

(***************************************************************************)
(* src/models/hotspot_detection.py: calculate_influence_score.  A score is *)
(* held exactly, as <<numerator, denominator>>; wind speed is in whole     *)
(* units, precipitation in tenths of a millimetre.                         *)
(***************************************************************************)
\* wind_speed / 15.0
wind_normalizer == 15

\* precipitation * 5.0
washout_factor == 5

\* a score in which rain multiplies instead of dividing
InfluenceScoreRainBoost(value, wind_speed, precipitation) ==
    <<value * (wind_normalizer + wind_speed) * (10 + washout_factor * precipitation),
      wind_normalizer * 10>>

\* a score whose wind factor falls with the wind speed: 1 - wind_speed / 15
InfluenceScoreWindDamped(value, wind_speed, precipitation) ==
    <<value * (wind_normalizer - wind_speed) * 10,
      wind_normalizer * (10 + washout_factor * precipitation)>>

\* calculate_influence_score: value * (1 + wind_speed / 15) * (1 / (1 + precipitation * 5))
calculate_influence_score(value, wind_speed, precipitation) ==
    <<value * (wind_normalizer + wind_speed) * 10,
      wind_normalizer * (10 + washout_factor * precipitation)>>

\* a / b < c / d for positive denominators
ScoreLess(a, b) == a[1] * b[2] < b[1] * a[2]

InfluenceInputs ==
    [value : {1, 50, 51, 200}, wind_speed : {0, 1, 5, 20, 40}, precipitation : {0, 1, 5, 20}]

InitInfluence ==
    /\ InitHist
    /\ InitPipe
    /\ fn_in \in InfluenceInputs
    /\ fn_out = NoOutcome
    /\ fn_op = "input"
    /\ fn_args = <<>>
    /\ detector = NoDetector
    /\ workers = NoWorkers
    /\ run = NoRun

\* the score of the input, and of the input with its precipitation or its wind
\* speed doubled
CalculateInfluenceScore ==
    /\ fn_op = "input"
    /\ fn_out' = [raised |-> FALSE,
                  score |-> calculate_influence_score(fn_in.value, fn_in.wind_speed,
                                                      fn_in.precipitation),
                  rain_doubled |-> calculate_influence_score(fn_in.value, fn_in.wind_speed,
                                                             2 * fn_in.precipitation),
                  wind_doubled |-> calculate_influence_score(fn_in.value, 2 * fn_in.wind_speed,
                                                             fn_in.precipitation)]
    /\ fn_op' = "calculate_influence_score"
    /\ UNCHANGED <<fn_in, fn_args, detector, histVars, pipeVars, workers, run>>

NextInfluence == CalculateInfluenceScore

SpecInfluence == InitInfluence /\ [][NextInfluence]_vars

(***************************************************************************)
(* The influence score: C20                                                *)
(***************************************************************************)
\* C20 as stated: for a positive value, doubling the precipitation strictly
\* lowers the score and doubling the wind speed strictly raises it, for every
\* non-negative wind speed and precipitation.
C20_InfluenceMonotone ==
    fn_op = "calculate_influence_score"
        => /\ ScoreLess(fn_out.rain_doubled, fn_out.score)
           /\ ScoreLess(fn_out.score, fn_out.wind_doubled)

\* C20 amended: for a positive value, doubling a positive precipitation strictly
\* lowers the score and doubling a positive wind speed strictly raises it; at a
\* precipitation of 0 or a wind speed of 0 the doubling leaves the score as it is.
C20_InfluenceMonotoneAmended ==
    fn_op = "calculate_influence_score"
        => /\ fn_in.precipitation > 0 => ScoreLess(fn_out.rain_doubled, fn_out.score)
           /\ fn_in.wind_speed > 0 => ScoreLess(fn_out.score, fn_out.wind_doubled)
           /\ fn_in.precipitation = 0 => fn_out.rain_doubled = fn_out.score
           /\ fn_in.wind_speed = 0 => fn_out.wind_doubled = fn_out.score

\* a score computed under wind and rain, lowered by more rain and raised by more wind
C20_Witness ==
    /\ fn_op = "calculate_influence_score"
    /\ fn_in.precipitation = 5 /\ fn_in.wind_speed = 20 /\ fn_in.value = 200
    /\ ScoreLess(fn_out.rain_doubled, fn_out.score)
    /\ ScoreLess(fn_out.score, fn_out.wind_doubled)

(***************************************************************************)
(* src/models/hotspot_detection.py: get_ranked_warnings.  A mean is held   *)
(* exactly, as <<sum, count>>.                                             *)
(***************************************************************************)
\* if val > 50
materiality_threshold == 50

WeatherSample(d, speed, precip) == WeatherRecord("Delhi", d, 286, 772, speed, 90, precip)

RankRow(p, v, loc) == MkRow(NoUid, <<"utc", 1>>, p, v, 286, 772, loc, "WAQI")

\* a location of "" is a missing location
RankRows ==
    {RankRow("pm25", 180, "Delhi"), RankRow("pm25", 60, "Delhi"),
     RankRow("pm25", 90, "Mumbai"), RankRow("pm25", 90, "Kolkata"),
     RankRow("pm25", 50, "Chennai"), RankRow("pm25", 120, ""),
     RankRow("no2", 300, "Chennai")}

\* weather frames: none, one sample, or an older and a newer sample in either order
RankWeatherFrames ==
    {<<>>}
        \cup {<<WeatherSample(2, ws, p)>> : ws \in {0, 30}, p \in {0, 10}}
        \cup {<<WeatherSample(1, 30, 10), WeatherSample(2, 10, 2)>>,
              <<WeatherSample(2, 10, 2), WeatherSample(1, 30, 10)>>}

OtherWeatherFrames == {<<WeatherSample(2, 0, 0)>>, <<WeatherSample(3, 30, 2)>>}

\* weather_df.sort_values('date').iloc[-1]: the last row of the greatest date
LatestWeatherRow(weather) ==
    weather[CHOOSE i \in 1..Len(weather) :
               /\ \A j \in 1..Len(weather) : weather[j].date <= weather[i].date
               /\ \A j \in (i + 1)..Len(weather) : weather[j].date < weather[i].date]

\* data_df['location'].unique(): the locations in order of first appearance
UniqueLocations(data) ==
    LET F[i \in 0..Len(data)] ==
            IF i = 0 THEN <<>>
            ELSE IF \E j \in 1..(i - 1) : data[j].location = data[i].location
                 THEN F[i - 1]
                 ELSE Append(F[i - 1], data[i].location)
    IN F[Len(data)]

\* pm25_rows['value'].mean() of one city
CityMean(data, city) ==
    LET rows == SelectSeq(data, LAMBDA r : r.location = city /\ r.parameter = "pm25")
    IN <<SumSeq([i \in 1..Len(rows) |-> rows[i].value]), Len(rows)>>

\* a threshold test that lets a mean of exactly 50 through
NotableInclusive(val) == val[1] >= materiality_threshold * val[2]

\* val > 50
Notable(val) == val[1] > materiality_threshold * val[2]

\* calculate_influence_score(val, wind_speed, precip) of a mean sum / count: the
\* score of the sum, divided by the count
ScoreOfMean(val, wind_speed, precip) ==
    LET s == calculate_influence_score(val[1], wind_speed, precip)
    IN <<s[1], s[2] * val[2]>>

\* city_influence.sort(key=lambda x: x['score'], reverse=True): stable, so equal
\* scores keep their order
SortByScoreDescending(items) ==
    LET Insert(sorted, h) ==
            LET before == SelectSeq(sorted, LAMBDA x : ~ScoreLess(x.score, h.score))
                after == SelectSeq(sorted, LAMBDA x : ScoreLess(x.score, h.score))
            IN before \o <<h>> \o after
        F[i \in 0..Len(items)] == IF i = 0 THEN <<>> ELSE Insert(F[i - 1], items[i])
    IN F[Len(items)]

\* city_influence[:top_n], for a limit that is not negative
SliceTo(s, n) == SubSeq(s, 1, IF n > Len(s) THEN Len(s) ELSE n)

\* get_ranked_warnings
get_ranked_warnings(data_df, weather_df, top_n) ==
    IF data_df = <<>> \/ weather_df = <<>> THEN <<>>
    ELSE
      LET latest_weather == LatestWeatherRow(weather_df)
          unique_cities == UniqueLocations(data_df)
          Entry(city) ==
              LET val == CityMean(data_df, city)
              IN IF city = "" \/ val[2] = 0 \/ ~Notable(val) THEN <<>>
                 ELSE <<[city |-> city,
                         avg_value |-> val,
                         score |-> ScoreOfMean(val, latest_weather.wind_speed,
                                               latest_weather.total_precipitation),
                         wind_speed |-> latest_weather.wind_speed,
                         wind_direction |-> latest_weather.wind_direction,
                         precipitation |-> latest_weather.total_precipitation]>>
          F[i \in 0..Len(unique_cities)] ==
              IF i = 0 THEN <<>> ELSE F[i - 1] \o Entry(unique_cities[i])
      IN SliceTo(SortByScoreDescending(F[Len(unique_cities)]), top_n)

RankInputs ==
    [data : SeqUpTo(RankRows, MaxPoints), weather : RankWeatherFrames,
     other_weather : OtherWeatherFrames]

RankLimits == {0, 1, 2, 4}

InitRank ==
    /\ InitHist
    /\ InitPipe
    /\ fn_in \in RankInputs
    /\ fn_out = NoOutcome
    /\ fn_op = "input"
    /\ fn_args = <<>>
    /\ detector = NoDetector
    /\ workers = NoWorkers
    /\ run = NoRun

\* get_ranked_warnings(data_df, weather_df, top_n)
GetRankedWarnings(top_n) ==
    /\ fn_op = "input"
    /\ fn_args' = [top_n |-> top_n]
    /\ fn_out' = [raised |-> FALSE,
                  rows |-> get_ranked_warnings(fn_in.data, fn_in.weather, top_n),
                  rerun |-> <<>>]
    /\ fn_op' = "get_ranked_warnings"
    /\ UNCHANGED <<fn_in, detector, histVars, pipeVars, workers, run>>

\* the same call again after the weather file was replaced by a later fetch
GetRankedWarningsAgain ==
    /\ fn_op = "get_ranked_warnings"
    /\ fn_out' = [fn_out EXCEPT
                     !.rerun = get_ranked_warnings(fn_in.data, fn_in.other_weather,
                                                   fn_args.top_n)]
    /\ fn_op' = "get_ranked_warnings_again"
    /\ UNCHANGED <<fn_in, fn_args, detector, histVars, pipeVars, workers, run>>

NextRank ==
    \/ \E n \in RankLimits : GetRankedWarnings(n)
    \/ GetRankedWarningsAgain

SpecRank == InitRank /\ [][NextRank]_vars

(***************************************************************************)
(* The influence ranker: C21, C30                                          *)
(***************************************************************************)
Cities(rows) == [i \in 1..Len(rows) |-> rows[i].city]

\* the PM2.5 values the dataset holds for a location
Pm25ValuesOf(loc) ==
    LET rows == SelectSeq(fn_in.data, LAMBDA r : r.location = loc /\ r.parameter = "pm25")
    IN [i \in 1..Len(rows) |-> rows[i].value]

\* C21: get_ranked_warnings returns at most top_n entries, in order of
\* non-increasing influence score, no location twice, and no location whose
\* mean PM2.5 value is 50 or less; with an empty dataset or an empty weather
\* set it returns an empty list.
C21_RankedWarnings ==
    fn_op = "get_ranked_warnings"
        => /\ Len(fn_out.rows) <= fn_args.top_n
           /\ \A i \in 1..(Len(fn_out.rows) - 1) :
                 ~ScoreLess(fn_out.rows[i].score, fn_out.rows[i + 1].score)
           /\ \A i, j \in 1..Len(fn_out.rows) :
                 fn_out.rows[i].city = fn_out.rows[j].city => i = j
           /\ \A i \in 1..Len(fn_out.rows) :
                 LET v == Pm25ValuesOf(fn_out.rows[i].city)
                 IN Len(v) > 0 /\ SumSeq(v) > 50 * Len(v)
           /\ (fn_in.data = <<>> \/ fn_in.weather = <<>>) => fn_out.rows = <<>>

\* two locations over the threshold and one at exactly 50, under a limit of one
\* and a weather set of two samples: the location of the highest score alone is returned
C21_Witness ==
    /\ fn_op = "get_ranked_warnings"
    /\ fn_args.top_n = 1
    /\ RankRow("pm25", 50, "Chennai") \in Range(fn_in.data)
    /\ RankRow("pm25", 90, "Mumbai") \in Range(fn_in.data)
    /\ RankRow("pm25", 180, "Delhi") \in Range(fn_in.data)
    /\ Len(fn_in.weather) = 2
    /\ Cities(fn_out.rows) = <<"Delhi">>

\* C30: with the same measurements and two weather sets, each with a sample of
\* non-negative wind speed and precipitation, get_ranked_warnings returns the
\* same locations in the same order, and that order is the order of the
\* locations by mean PM2.5 value.
C30_RankingIgnoresWeather ==
    (fn_op = "get_ranked_warnings_again" /\ fn_in.weather # <<>>)
        => /\ Cities(fn_out.rows) = Cities(fn_out.rerun)
           /\ \A i \in 1..(Len(fn_out.rows) - 1) :
                 LET a == Pm25ValuesOf(fn_out.rows[i].city)
                     b == Pm25ValuesOf(fn_out.rows[i + 1].city)
                 IN SumSeq(a) * Len(b) >= SumSeq(b) * Len(a)

\* two locations ranked under a strong wind with rain and again under calm, dry
\* weather: different scores, same order
C30_Witness ==
    /\ fn_op = "get_ranked_warnings_again"
    /\ Len(fn_out.rows) = 2
    /\ LatestWeatherRow(fn_in.weather).wind_speed = 30
    /\ LatestWeatherRow(fn_in.other_weather).wind_speed = 0
    /\ fn_out.rows[1].score # fn_out.rerun[1].score
    /\ ScoreLess(fn_out.rows[2].score, fn_out.rows[1].score)
    /\ Cities(fn_out.rows) = Cities(fn_out.rerun)

(***************************************************************************)
(* The history accumulator: C22 - C23                                      *)
(***************************************************************************)
\* the records of the persisted history, as a cycle reads them
HistoryRecords(file) == ReadCsvParseDates(file)

\* C22: after every cycle the persisted PM2.5 history holds at most one record
\* per (station identifier, timestamp) key.
C22_OneRecordPerKey ==
    pm25_history.readable
        => \A i, j \in 1..Len(pm25_history.rows) :
              HistoryKey(pm25_history.rows[i]) = HistoryKey(pm25_history.rows[j]) => i = j

\* a batch of two records, one of them on a key the history already held with
\* another value, was accumulated into a history of two records
C22_Witness ==
    /\ op = "fetch_waqi_data"
    /\ ~waqi_ret.raised
    /\ Pm25Of(batch) = WaqiFrame(<<WaqiRow(1, 1, "pm25", 90), WaqiRow(1, 2, "pm25", 40)>>)
    /\ HistoryRecords(pm25_history)
          = WaqiFrame(<<WaqiRow(1, 1, "pm25", 40), WaqiRow(1, 2, "pm25", 40)>>)

\* C23: when a cycle's batch holds a record on a key the persisted history
\* already holds with a different value, the history after the cycle holds the
\* batch's record for that key.
C23_LastSeenWins ==
    [][(op' = "fetch_waqi_data" /\ ~waqi_ret'.raised /\ pm25_history.readable)
         => \A i \in 1..Len(Pm25Of(batch')) :
               LET r == Pm25Of(batch')[i]
               IN (/\ \E o \in Range(HistoryRecords(pm25_history)) :
                         HistoryKey(o) = HistoryKey(r) /\ o.value # r.value
                   /\ \A j \in (i + 1)..Len(Pm25Of(batch')) :
                         HistoryKey(Pm25Of(batch')[j]) # HistoryKey(r))
                     => r \in Range(HistoryRecords(pm25_history'))]_vars

(***************************************************************************)
(* src/data_collection/fetch_waqi.py: fetch_waqi_data run by two processes *)
(* at once (python -m ...fetch_waqi, ...fetch_all_gases and                *)
(* scripts/fetch_data.py all call it on the same files).  Each statement   *)
(* that reads or writes a file is a step of its own.                       *)
(***************************************************************************)
Workers == {1, 2}

WorkerAt(pc, pm25_df, other_df) == [pc |-> pc, pm25_df |-> pm25_df, other_df |-> other_df]

\* what the station loop of a process yields
ConcurrentBatches ==
    {WaqiYields(<<WaqiRow(1, 1, "pm25", 40)>>),
     WaqiYields(<<WaqiRow(1, 2, "pm25", 40)>>),
     WaqiYields(<<WaqiRow(1, 1, "pm25", 90), WaqiRow(2, 1, "pm25", 40)>>),
     WaqiYields(<<WaqiRow(1, 1, "no2", 40)>>),
     WaqiYields(<<>>)}

\* the history the earlier cycles left
ConcurrentHistories ==
    {NoFile,
     ToCsv(WaqiFrame(<<WaqiRow(1, 1, "pm25", 40)>>)),
     ToCsv(WaqiFrame(<<WaqiRow(1, 2, "pm25", 40), WaqiRow(2, 1, "pm25", 40)>>))}

InitConcurrent ==
    /\ pm25_history \in ConcurrentHistories
    /\ waqi_snapshot = NoFile
    /\ waqi_ret = NoOutcome
    /\ batch = [kind |-> "rows", rows |-> <<>>]
    /\ op = "init"
    /\ repeated = FALSE
    /\ InitPipe
    /\ fn_in \in [prior : {pm25_history}, batches : [Workers -> ConcurrentBatches]]
    /\ fn_out = NoOutcome
    /\ fn_op = "input"
    /\ fn_args = <<>>
    /\ detector = NoDetector
    /\ workers = [w \in Workers |-> WorkerAt("idle", <<>>, <<>>)]
    /\ run = NoRun

\* the station loop and the split of the frame: lines 180 - 219
Collect(w) ==
    /\ workers[w].pc = "idle"
    /\ LET df == WaqiFrame(fn_in.batches[w].rows)
           pm25_df == SelectSeq(df, IsPm25)
           other_df == SelectSeq(df, NotPm25)
       IN workers' = [workers EXCEPT ![w] =
                         WorkerAt(IF df = <<>> THEN "done"
                                  ELSE IF pm25_df # <<>> THEN "load" ELSE "snapshot",
                                  pm25_df, other_df)]
    /\ UNCHANGED <<histVars, pipeVars, fnVars, detector, run>>

\* if PM25_HISTORY_FILE.exists(): old = pd.read_csv(...); pm25_df = pd.concat([old, pm25_df])
Load(w) ==
    /\ workers[w].pc = "load"
    /\ workers' = [workers EXCEPT ![w] =
                      IF ~pm25_history.exists THEN [@ EXCEPT !.pc = "merge"]
                      ELSE IF ~pm25_history.readable THEN [@ EXCEPT !.pc = "raised"]
                      ELSE [@ EXCEPT !.pc = "merge",
                                     !.pm25_df = ReadCsvParseDates(pm25_history) \o @]]
    /\ UNCHANGED <<histVars, pipeVars, fnVars, detector, run>>

\* pm25_df.drop_duplicates(subset=["station_uid", "date"], inplace=True)
Merge(w) ==
    /\ workers[w].pc = "merge"
    /\ workers' = [workers EXCEPT ![w] =
                      [@ EXCEPT !.pc = "persist", !.pm25_df = DropHistoryDuplicates(@)]]
    /\ UNCHANGED <<histVars, pipeVars, fnVars, detector, run>>

\* pm25_df.to_csv(PM25_HISTORY_FILE, index=False)
Persist(w) ==
    /\ workers[w].pc = "persist"
    /\ pm25_history' = ToCsv(workers[w].pm25_df)
    /\ workers' = [workers EXCEPT ![w] = [@ EXCEPT !.pc = "snapshot"]]
    /\ UNCHANGED <<waqi_snapshot, waqi_ret, batch, op, repeated, pipeVars, fnVars, detector, run>>

\* other_df.to_csv(output_path, index=False), and the return of the combined frame
Snapshot(w) ==
    /\ workers[w].pc = "snapshot"
    /\ waqi_snapshot' = ToCsv(workers[w].other_df)
    /\ waqi_ret' = Result(workers[w].pm25_df \o workers[w].other_df)
    /\ batch' = fn_in.batches[w]
    /\ op' = "fetch_waqi_data"
    /\ workers' = [workers EXCEPT ![w] = [@ EXCEPT !.pc = "done"]]
    /\ UNCHANGED <<pm25_history, repeated, pipeVars, fnVars, detector, run>>

NextConcurrent ==
    \E w \in Workers : Collect(w) \/ Load(w) \/ Merge(w) \/ Persist(w) \/ Snapshot(w)

SpecConcurrent == InitConcurrent /\ [][NextConcurrent]_vars

(***************************************************************************)
(* Two cycles on one history: C24                                          *)
(***************************************************************************)
\* between its load of the history and the end of its write
InCycle(w) == workers[w].pc \in {"merge", "persist"}

\* no two processes are between load and persist at the same time
CyclesNeverInterleave == \A v, w \in Workers : (InCycle(v) /\ InCycle(w)) => v = w

\* the keys a process's batch brings
BatchKeys(w) == {HistoryKey(WriteRow(r)) : r \in Range(Pm25Of(fn_in.batches[w]))}

\* once every process has finished, the history holds the keys of the prior
\* history and of every batch, each once
NoLostUpdate ==
    (\A w \in Workers : workers[w].pc = "done")
        => /\ FileKeys(fn_in.prior) \cup UNION {BatchKeys(w) : w \in Workers}
                 \subseteq FileKeys(pm25_history)
           /\ \A i, j \in 1..Len(pm25_history.rows) :
                 HistoryKey(pm25_history.rows[i]) = HistoryKey(pm25_history.rows[j]) => i = j

\* C24: the load, merge and persist steps of two concurrent cycles on the same
\* history never interleave, and after both the history holds every key of the
\* prior history and of both batches, one record per key.
C24_CriticalSection == CyclesNeverInterleave /\ NoLostUpdate

(***************************************************************************)
(* The advection tracker: C25 - C26                                        *)
(***************************************************************************)
\* the city of the weather station nearest to a point
NearestCity(lat, lon) ==
    LET p == [latitude |-> lat, longitude |-> lon]
        w == CHOOSE x \in Range(fn_in.weather) :
                \A y \in Range(fn_in.weather) : StationDist2(x, p) <= StationDist2(y, p)
    IN w.city

\* the sample of a city with the greatest timestamp
NewestSample(city) ==
    CHOOSE w \in Range(fn_in.weather) :
        /\ w.city = city
        /\ \A v \in Range(fn_in.weather) : v.city = city => v.date <= w.date

\* C25: the wind speed and direction of every trajectory point are those of the
\* sample with the greatest timestamp of the station nearest to its origin,
\* whatever the order of the rows in the weather set.
C25_LatestWeatherOnly ==
    fn_op = "track_pollution_movement"
        => \A i \in 1..Len(fn_out.rows) :
              LET t == fn_out.rows[i]
                  newest == NewestSample(NearestCity(t.original_lat, t.original_lon))
              IN /\ t.wind_speed = newest.wind_speed
                 /\ t.wind_direction = newest.wind_direction

\* the measurements advection accepts, in dataset order
Accepted == SelectSeq(fn_in.pollution, WithinTwoDegrees)

\* C26: every accepted measurement gives exactly hours_forward trajectory
\* points, for the hours 1..hours_forward in increasing order; the point of
\* hour h is displaced from the origin by h times the displacement of hour 1,
\* keeps the origin coordinates, and carries the measurement's value and
\* pollutant unchanged.
C26_TrajectoryShape ==
    fn_op = "track_pollution_movement"
        => LET N == fn_args.hours_forward
           IN /\ Len(fn_out.rows) = N * Len(Accepted)
              /\ \A k \in 1..Len(Accepted) : \A h \in 1..N :
                    LET t == fn_out.rows[(k - 1) * N + h]
                        first == fn_out.rows[(k - 1) * N + 1]
                        p == Accepted[k]
                    IN /\ t.hours_ahead = h
                       /\ t.original_lat = p.latitude /\ t.original_lon = p.longitude
                       /\ t.value = p.value /\ t.parameter = p.parameter
                       /\ t.predicted_lat - p.latitude * 10000
                             = h * (first.predicted_lat - p.latitude * 10000)
                       /\ t.predicted_lon - p.longitude * 10000
                             = h * (first.predicted_lon - p.longitude * 10000)

\* two measurements were accepted and one skipped; under a wind of 10 from 45
\* degrees each accepted one moved twice as far in hour 2 as in hour 1
C26_Witness ==
    /\ fn_op = "track_pollution_movement"
    /\ fn_args.hours_forward = 2
    /\ Len(fn_in.pollution) = 3
    /\ Len(Accepted) = 2
    /\ Accepted[1] # Accepted[2]
    /\ Len(fn_out.rows) = 4
    /\ fn_out.rows[3].wind_direction = 45
    /\ fn_out.rows[3].predicted_lat = fn_out.rows[3].original_lat * 10000 - 7070
    /\ fn_out.rows[4].predicted_lat = fn_out.rows[4].original_lat * 10000 - 14140
    /\ fn_out.rows[4].predicted_lon = fn_out.rows[4].original_lon * 10000 - 14140

(***************************************************************************)
(* The forecaster's baseline: C27                                          *)
(***************************************************************************)
\* the values of the clean PM2.5 rows that match the city asked for
CleanValuesOf(city) ==
    LET rows == SelectSeq(fn_in.df, LAMBDA r :
                    /\ r.parameter = "pm25" /\ NotNa(r.value) /\ r.value > 0 /\ r.value < 500
                    /\ r.location # "Unknown"
                    /\ LocationContains(r.location, LowerStrip(city)))
    IN [i \in 1..Len(rows) |-> rows[i].value]

\* the mean, the mode and the reported current_avg of a forecast
MeanAndModeAsClaimed ==
    LET v == CleanValuesOf(fn_args.city)
        used == fn_args.generate_call
    IN /\ Len(v) >= 10
          => used.city_avg = MeanTenths(v) /\ fn_out.model = "City ML Model"
       /\ Len(v) < 10
          => /\ used.city_avg = CITY_BASELINES(LowerStrip(fn_args.city)).avg
             /\ used.city_std = CITY_BASELINES(LowerStrip(fn_args.city)).std
             /\ fn_out.model = "City Baseline Model"
       /\ fn_out.current_avg = used.city_avg

\* C27 as stated: with at least 10 clean matching PM2.5 rows, and only then, the
\* forecast uses the sample mean and the sample standard deviation and records
\* the location-data mode; otherwise it uses the city's baseline (85 / 25 for an
\* unknown city) and records the baseline mode; current_avg is the mean used.
C27_BaselineMode ==
    fn_op = "predict_next_24h"
        => /\ MeanAndModeAsClaimed
           /\ Len(CleanValuesOf(fn_args.city)) >= 10
                 => fn_args.generate_call.city_std = StdTenths(CleanValuesOf(fn_args.city))

\* C27 amended: as stated, except that the deviation used in the location-data
\* mode is the sample standard deviation or 10, whichever is greater.
C27_BaselineModeAmended ==
    fn_op = "predict_next_24h"
        => /\ MeanAndModeAsClaimed
           /\ Len(CleanValuesOf(fn_args.city)) >= 10
                 => LET sd == StdTenths(CleanValuesOf(fn_args.city))
                    IN fn_args.generate_call.city_std = IF sd > 100 THEN sd ELSE 100

\* exactly ten clean rows of one value: the location-data mode with the sample
\* mean and a deviation of 10
C27_Witness ==
    /\ fn_op = "predict_next_24h"
    /\ Len(CleanValuesOf(fn_args.city)) = 10
    /\ StdTenths(CleanValuesOf(fn_args.city)) = 0
    /\ fn_out.model = "City ML Model"
    /\ fn_out.current_avg = 3000
    /\ fn_args.generate_call.city_std = 100

(***************************************************************************)
(* Timestamps through fusion: C28                                          *)
(***************************************************************************)
\* the date column holds an instant
IsTimestamp(d) == d[1] \in {"naive", "utc"}

\* C28: fusion never fails on a bad timestamp and drops no record for it: every
\* record inside the bounds with a positive value is in the fused dataset, with
\* the current time as its timestamp when its own could not be parsed and with
\* its own timestamp otherwise.
C28_TimestampTolerance ==
    fn_op = "consolidate_dataframes"
        => /\ ~fn_out.raised
           /\ \A r \in Range(Concat(SelectSeq(fn_in, NonEmptyDf))) :
                 (InIndiaBounds(r) /\ PositiveValue(r))
                    => \E o \in Range(fn_out.rows) :
                          /\ o.value = r.value /\ o.source = r.source
                          /\ o.latitude = r.latitude /\ o.longitude = r.longitude
                          /\ IF r.date[1] = "unparsable" THEN IsTimestamp(o.date)
                             ELSE o.date = ParseDate(r.date)

(***************************************************************************)
(* src/data_collection/fetch_all_gases.py: main, step by step.  steps is   *)
(* the list of what the run has attempted, each entry <<step, outcome>>.   *)
(***************************************************************************)
\* what the sources may do in the run
MainRunInputs ==
    [waqi : {WaqiRaise, WaqiYields(<<WaqiRow(1, 1, "pm25", 40)>>),
             WaqiYields(<<WaqiRow(1, 1, "pm25", 0)>>)},
     sentinel : {RaiseOutcome, Df(<<SentinelRow>>)},
     modis : {NoneOutcome},
     openaq : {RaiseOutcome, Df(<<OpenAqRow(0)>>), Df(<<OpenAqRow(60)>>)},
     mock : {MockBatch}]

\* the weather and tracking block: the import or a call raises, no weather came
\* back, no arrow was generated, or the arrows were written
TrackingOutcomes == {"raise", "no_weather", "no_arrows", "arrows_saved"}

\* the retraining block: train_hotspot_model raises or returns
TrainingOutcomes == {"raise", "ok"}

\* a tracking block whose exception is not caught ends the run
AfterTrackingUncaught(outcome) == IF outcome = "raise" THEN "done" ELSE "training"

\* try: ... except Exception: the run goes on to the retraining block
AfterTracking(outcome) == "training"

\* df = fetch_all_sources(use_mock_if_needed=True); if df.empty: return
MainFetch(in) ==
    /\ run.pc = "start"
    /\ \E r \in {fetch_all_sources(TRUE, REAL_SOURCES_AVAILABLE, in, pm25_history, waqi_snapshot)} :
          /\ pm25_history' = r.hist
          /\ waqi_snapshot' = r.snap
          /\ waqi_ret' = IF REAL_SOURCES_AVAILABLE THEN r.waqi ELSE waqi_ret
          /\ batch' = IF REAL_SOURCES_AVAILABLE THEN in.waqi ELSE batch
          /\ datasets' = r.datasets
          /\ attempts' = r.attempts
          /\ outcomes' = r.outcomes
          /\ use_mock' = TRUE
          /\ fused' = r.ret
          /\ run' = [pc |-> IF r.ret.rows = <<>> THEN "done" ELSE "save",
                     steps |-> <<<<"fetch_all_sources", "ok">>>>]
    /\ op' = "main"
    /\ UNCHANGED <<repeated, REAL_SOURCES_AVAILABLE, all_latest, fnVars, detector, workers>>

\* save_combined_data(df); summarize(df)
MainSave ==
    /\ run.pc = "save"
    /\ all_latest' = ToCsv(fused.rows)
    /\ run' = [pc |-> "tracking", steps |-> Append(run.steps, <<"save_combined_data", "ok">>)]
    /\ UNCHANGED <<histVars, REAL_SOURCES_AVAILABLE, datasets, attempts, outcomes, use_mock,
                   fused, fnVars, detector, workers>>

\* 1. Weather & Tracking, inside its try / except
MainTracking(outcome) ==
    /\ run.pc = "tracking"
    /\ run' = [pc |-> AfterTracking(outcome),
               steps |-> Append(run.steps, <<"tracking", outcome>>)]
    /\ UNCHANGED <<histVars, pipeVars, fnVars, detector, workers>>

\* 2. ML Retraining, inside its try / except, and the closing prints
MainTraining(outcome) ==
    /\ run.pc = "training"
    /\ run' = [pc |-> "done",
               steps |-> Append(run.steps, <<"train_hotspot_model", outcome>>)]
    /\ UNCHANGED <<histVars, pipeVars, fnVars, detector, workers>>

NextMain ==
    \/ \E in \in MainRunInputs : MainFetch(in)
    \/ MainSave
    \/ \E o \in TrackingOutcomes : MainTracking(o)
    \/ \E o \in TrainingOutcomes : MainTraining(o)

\* main is a sequential program: a step that can be taken is taken
SpecMain == InitFetch /\ [][NextMain]_vars /\ WF_vars(NextMain)

(***************************************************************************)
(* The steps of main: C29                                                  *)
(***************************************************************************)
StepNames == [i \in 1..Len(run.steps) |-> run.steps[i][1]]

\* the fused dataset was saved before the two triggers, each attempted once, in order
FullRun ==
    /\ StepNames = <<"fetch_all_sources", "save_combined_data", "tracking", "train_hotspot_model">>
    /\ all_latest = ToCsv(fused.rows)

\* what a finished run has done, but for what an empty fused dataset leaves on disk
StepsInOrder ==
    /\ run.pc = "done"
          => IF fused.rows = <<>>
             THEN StepNames = <<"fetch_all_sources">> /\ all_latest = NoFile
             ELSE FullRun
    /\ \A i \in 1..Len(StepNames) :
          /\ StepNames[i] = "save_combined_data" => fused.rows # <<>> /\ i = 2
          /\ StepNames[i] = "tracking" => all_latest = ToCsv(fused.rows) /\ i = 3
          /\ StepNames[i] = "train_hotspot_model" => i = 4

\* C29 as stated: with an empty fused dataset nothing is persisted and no trigger
\* is attempted; otherwise the dataset is persisted, then tracking and then
\* retraining are attempted once each, in that order, retraining also after a
\* failed tracking step; the run always terminates.
C29_PipelineStepOrder ==
    /\ [](StepsInOrder)
    /\ []((run.pc = "done" /\ fused.rows = <<>>)
             => (pm25_history = NoFile /\ waqi_snapshot = NoFile))
    /\ <>(run.pc = "done")

\* C29 amended: with an empty fused dataset the fused dataset is not persisted
\* and no trigger is attempted (the WAQI history and snapshot the fetch wrote
\* stay on disk); otherwise as stated; the run always terminates.
C29_PipelineStepOrderAmended ==
    /\ [](StepsInOrder)
    /\ <>(run.pc = "done")

\* a finished run in which the tracking step failed and retraining was still attempted
C29_Witness ==
    /\ run.pc = "done"
    /\ fused.rows # <<>>
    /\ run.steps[3] = <<"tracking", "raise">>
    /\ run.steps[4][1] = "train_hotspot_model"
    /\ Len(run.steps) = 4

====
